---- MODULE Spec2Model ----
(***************************************************************************)
(* The version graph engine of sapling: class VersionControl, the branch   *)
(* table, the version pointer, text reconstruction, commit (fork or        *)
(* append) and navigation (undo, redo, switchToVersion, createBranch).     *)
(*                                                                         *)
(* Text is a TLA+ string; a JavaScript array of characters is a sequence   *)
(* of one-character strings.  A JavaScript value stored in an operation    *)
(* array is a tagged record (Num, Str) so that the code's typeof tests     *)
(* can be written down.                                                    *)
(***************************************************************************)
EXTENDS Integers, Sequences, FiniteSets, TLC

(***************************************************************************)
(* Bounds of the model.                                                    *)
(***************************************************************************)
\* at most MaxChanges calls change the branch table (an operation recorded or a
\* branch created by name)
MaxChanges == 3
\* the clock advances at most MaxTicks times, by one of TickSteps milliseconds
MaxTicks == 1
TickSteps == {10000}

\* a loaded log holds at most MaxLog entries, and at most MaxLoads tables are loaded
MaxLog == 2
MaxLoads == 1

\* the (index, character) pairs the editor types
TypedInputs == {<<0, "a">>, <<1, "b">>}
\* the indices of single deletions, and the (start, count) of multiple deletions
DeletedIndices == {0}
DeletedRanges == {<<0, 2>>}
\* the names given to createBranch: empty, taken, free, and a free name that
\* Object.prototype also defines
BranchNameInputs == {"", "main", "feature", "constructor"}
\* a branch id that is never in the table
UnknownBranchId == "no-such-branch"
\* the most versions a branch of the snapshot-based program holds before an
\* edit is made
MaxVersions == 3
\* the characters typed into the snapshot-based program's textarea
TypedCharacters == {"a", "b"}
\* the values Math.random().toString(36).substring(2, 9) returns
RandomTokens == {"k3j9x2a", "07zq1mc"}

(***************************************************************************)
(* Constants of the program.                                               *)
(***************************************************************************)
DEFAULT_BRANCH_ID == "main"
INITIAL_TRANSACTION_INDEX == -1
BRANCH_ID_AUTOMATIC_PREFIX == "branch-"
OP_TYPE_ADD == "charTyped"
OP_TYPE_DELETE == "charDeleted"
OP_TYPE_DELETE_MULTI == "charsDeleted"
OP_TYPE_INITIAL == "initial"
OP_TYPE_BRANCH_CREATED == "branch_created"
OP_TYPE_UNKNOWN == "unknown_op"
\* JavaScript's null (parentBranchId of the root)
null == "<null>"

VARIABLES
  _branches,                 \* this._branches: branch id -> branch record
  _currentBranchId,          \* this._currentBranchId
  _currentTransactionIndex,  \* this._currentTransactionIndex
  editor,                    \* the EditorManager: the textarea's value and _previousContent
  localStorage,              \* the browser's localStorage: key -> stored value
  now,                       \* milliseconds Date.now() has advanced since the page loaded
  started,                   \* TRUE once the page has called init()
  changes,                   \* the number of calls that have changed a branch table
  ticks,                     \* the number of times the clock has advanced
  \* the snapshot-based VersionControl of text-version-control/app.js
  this_branches,             \* this.branches: branch id -> {versions, parentVersion}
  this_currentBranchId,      \* this.currentBranchId
  currentVersionIndex,       \* this.currentVersionIndex
  isEditing,                 \* this.isEditing
  previousContent,           \* this.previousContent
  editorValue,               \* this.editor.value, the textarea's text
  timeouts,                  \* the callbacks setTimeout(..., 0) has queued
  inputPending,              \* TRUE between a deletion keydown and its input event
  \* the engine's calls into its collaborators, one step each
  callStack,                 \* the engine operations that are executing, innermost first
  _isProgrammaticChange,     \* EditorManager._isProgrammaticChange
  \* two VersionControl instances of one page
  heap,                      \* the branch-table objects: object id -> table
  instances,                 \* instance -> its _branches reference and its pointer
  \* the TimelineManager's drag state
  isDragging,                \* timelineManager.isDragging
  dragTarget,                \* timelineManager.dragTarget, or null
  \* the character-slot engine, VersionControlV2
  v2_branches,               \* its _branches: branch id -> {versions, parent}
  v2_currentBranchId,        \* its _currentBranchId
  v2_currentVersionId,       \* its _currentVersionId
  v2_generated               \* the number of ids it has generated

\* the fields of the snapshot-based VersionControl and its browser
snapshotVars == <<this_branches, this_currentBranchId, currentVersionIndex, isEditing,
                  previousContent, editorValue, timeouts, inputPending>>

\* the call stack of the engine and the flag of its editor manager
callVars == <<callStack, _isProgrammaticChange>>

\* the objects of a page that holds two engines
instanceVars == <<heap, instances>>

\* the drag state of the timeline
timelineVars == <<isDragging, dragTarget>>

\* the fields of the character-slot engine
slotVars == <<v2_branches, v2_currentBranchId, v2_currentVersionId, v2_generated>>

vars == <<_branches, _currentBranchId, _currentTransactionIndex, editor, localStorage,
          now, started, changes, ticks, snapshotVars, callVars, instanceVars, timelineVars, slotVars>>

(***************************************************************************)
(* JavaScript values and library functions the engine uses.                *)
(***************************************************************************)
Num(n) == [t |-> "number", n |-> n, s |-> ""]
Str(s) == [t |-> "string", n |-> 0, s |-> s]
\* the value null, whose typeof is "object"
JsNull == [t |-> "object", n |-> 0, s |-> ""]

\* An array is a sequence.  A value that is no array, where an array is
\* expected (a log entry), is held under the key 0, which no sequence has.
NonArray(value) == [k \in {0} |-> value]

\* Array.isArray
ArrayIsArray(x) == 0 \notin DOMAIN x

\* the truthiness of a value: 0, "" and null are falsy
ToBoolean(v) ==
  CASE v.t = "number" -> v.n # 0
    [] v.t = "string" -> v.s # ""
    [] OTHER -> FALSE

\* String(v) of a number, a string or null
JsToString(v) ==
  CASE v.t = "number" -> ToString(v.n)
    [] v.t = "string" -> v.s
    [] OTHER -> "null"

\* Array.prototype.join(','): the elements as strings, null as the empty string
RECURSIVE JoinComma(_)
JoinComma(array) ==
  LET text(v) == IF v.t = "object" THEN "" ELSE JsToString(v)
  IN IF Len(array) = 0 THEN ""
     ELSE IF Len(array) = 1 THEN text(array[1])
     ELSE text(array[1]) \o "," \o JoinComma(Tail(array))

\* the decimal digits
DigitValue(c) ==
  CASE c = "0" -> 0 [] c = "1" -> 1 [] c = "2" -> 2 [] c = "3" -> 3 [] c = "4" -> 4
    [] c = "5" -> 5 [] c = "6" -> 6 [] c = "7" -> 7 [] c = "8" -> 8 [] c = "9" -> 9
    [] OTHER -> -1

\* Number(str) for a string of decimal digits ("" is 0); any other string of the
\* model's inputs has no numeric reading and is NaN, written NotANumber
NotANumber == "NaN"

RECURSIVE DigitsToNumber(_)
DigitsToNumber(str) ==
  IF Len(str) = 0 THEN 0
  ELSE DigitsToNumber(SubSeq(str, 1, Len(str) - 1)) * 10
         + DigitValue(SubSeq(str, Len(str), Len(str)))

StringToNumber(str) ==
  IF \A i \in 1..Len(str) : DigitValue(SubSeq(str, i, i)) >= 0
  THEN Num(DigitsToNumber(str))
  ELSE Str(NotANumber)

Min(a, b) == IF a < b THEN a ELSE b
Max(a, b) == IF a > b THEN a ELSE b

\* String.prototype.split(''): the characters of a string, in order
Split(str) == [i \in 1..Len(str) |-> SubSeq(str, i, i)]

\* Array.prototype.join(''): the concatenation of the elements
RECURSIVE Join(_)
Join(chars) == IF Len(chars) = 0 THEN "" ELSE Head(chars) \o Join(Tail(chars))

\* Array.prototype.splice(start, deleteCount, ...items), the array afterwards:
\* a negative start counts from the end, start and deleteCount are clamped
Splice(array, start, deleteCount, items) ==
  LET len == Len(array)
      actualStart == IF start < 0 THEN Max(len + start, 0) ELSE Min(start, len)
      actualDeleteCount == Min(Max(deleteCount, 0), len - actualStart)
  IN SubSeq(array, 1, actualStart) \o items
       \o SubSeq(array, actualStart + actualDeleteCount + 1, len)

\* the integer splice reads from an argument: ToNumber (a string is parsed,
\* null is 0), and NaN counts as 0
ToIntegerOrInfinity(v) ==
  CASE v.t = "number" -> v.n
    [] v.t = "string" ->
         LET number == StringToNumber(v.s)
         IN IF number.t = "number" THEN number.n ELSE 0
    [] OTHER -> 0

\* object[key] = value
Put(object, key, value) ==
  [k \in DOMAIN object \cup {key} |-> IF k = key THEN value ELSE object[k]]

\* a number below 10000 written with four digits
Pad4(n) ==
  IF n < 10 THEN "000" \o ToString(n)
  ELSE IF n < 100 THEN "00" \o ToString(n)
  ELSE IF n < 1000 THEN "0" \o ToString(n)
  ELSE ToString(n)

\* Date.now() as its 13 decimal digits, t milliseconds after the page loaded at
\* 1761950000000 (t stays below 100 seconds, so only the last five digits move)
DateNow(t) == "17619500" \o ToString(t \div 10000) \o Pad4(t % 10000)

(***************************************************************************)
(* Text reconstruction.                                                    *)
(***************************************************************************)
\* one pass of the replay loop of _reconstructText: the effect of one log entry
ApplyOpDetails(textChars, opDetails) ==
  IF ~ArrayIsArray(opDetails) \/ Len(opDetails) = 0
  THEN textChars
  ELSE LET index == opDetails[1]
           opType ==
             IF Len(opDetails) = 2 /\ opDetails[2].t = "string" THEN "a"
             ELSE IF Len(opDetails) = 2 /\ opDetails[2].t = "number" THEN "d_multi"
             ELSE IF Len(opDetails) = 1 /\ index.t = "number" THEN "d_single"
             ELSE "unknown_op"
       IN CASE opType = "a" ->
                 Splice(textChars, ToIntegerOrInfinity(index), 0, Split(opDetails[2].s))
            [] opType = "d_multi" ->
                 Splice(textChars, ToIntegerOrInfinity(index), opDetails[2].n, <<>>)
            [] opType = "d_single" ->
                 Splice(textChars, ToIntegerOrInfinity(index), 1, <<>>)
            [] OTHER -> textChars

\* the replay loop (a mutant: it stops one entry short of targetTransactionIndex)
RECURSIVE ReplayFromExclusive(_, _, _, _)
ReplayFromExclusive(textChars, transactions, i, targetTransactionIndex) ==
  IF i < targetTransactionIndex /\ i < Len(transactions)
  THEN ReplayFromExclusive(ApplyOpDetails(textChars, transactions[i + 1]),
                           transactions, i + 1, targetTransactionIndex)
  ELSE textChars

\* the replay loop: for (i = from; i <= targetTransactionIndex && i < length; i++),
\* i is the JavaScript (0-based) index
RECURSIVE ReplayFrom(_, _, _, _)
ReplayFrom(textChars, transactions, i, targetTransactionIndex) ==
  IF i <= targetTransactionIndex /\ i < Len(transactions)
  THEN ReplayFrom(ApplyOpDetails(textChars, transactions[i + 1]),
                  transactions, i + 1, targetTransactionIndex)
  ELSE textChars

_reconstructText(branches, branchId, targetTransactionIndex) ==
  IF branchId \notin DOMAIN branches
  THEN ""
  ELSE LET branch == branches[branchId]
       IN IF targetTransactionIndex = INITIAL_TRANSACTION_INDEX
          THEN branch.initialContent
          ELSE Join(ReplayFrom(Split(branch.initialContent), branch.transactions,
                               0, targetTransactionIndex))

(***************************************************************************)
(* The engine's fields as one value: the branch table and the pointer.     *)
(***************************************************************************)
Engine(b, id, ix) == [branches |-> b, branchId |-> id, index |-> ix]

This == Engine(_branches, _currentBranchId, _currentTransactionIndex)

\* what a public call returns: the engine afterwards and the returned value
Returns(e, ret) == [engine |-> e, ret |-> ret]

\* _initializeNewRepository (a mutant: main is created, the pointer is not set)
_initializeNewRepositoryKeepingPointer(e) ==
  Engine(Put(e.branches, DEFAULT_BRANCH_ID,
             [id |-> DEFAULT_BRANCH_ID,
              parentBranchId |-> null,
              parentTransactionIndex |-> INITIAL_TRANSACTION_INDEX,
              initialContent |-> "",
              transactions |-> <<>>]),
         e.branchId, e.index)

\* _initializeNewRepository: (re)create an empty main and point at it
_initializeNewRepository(e) ==
  Engine(Put(e.branches, DEFAULT_BRANCH_ID,
             [id |-> DEFAULT_BRANCH_ID,
              parentBranchId |-> null,
              parentTransactionIndex |-> INITIAL_TRANSACTION_INDEX,
              initialContent |-> "",
              transactions |-> <<>>]),
         DEFAULT_BRANCH_ID, INITIAL_TRANSACTION_INDEX)

\* _generateId at clock t, rnd being Math.random().toString(36).substring(2, 9)
_generateId(t, rnd) == "id-" \o DateNow(t) \o "-" \o rnd

\* _getOrCreateCurrentBranch (a mutant: the fallback is the start of main, not
\* its tip)
_getOrCreateCurrentBranchAtStart(e) ==
  IF e.branchId \notin DOMAIN e.branches
  THEN IF DEFAULT_BRANCH_ID \in DOMAIN e.branches
       THEN Engine(e.branches, DEFAULT_BRANCH_ID, INITIAL_TRANSACTION_INDEX)
       ELSE _initializeNewRepository(e)
  ELSE e

\* _getOrCreateCurrentBranch: fall back to main's tip when the pointer's branch is missing
_getOrCreateCurrentBranch(e) ==
  IF e.branchId \notin DOMAIN e.branches
  THEN IF DEFAULT_BRANCH_ID \in DOMAIN e.branches
       THEN LET mainBranch == e.branches[DEFAULT_BRANCH_ID]
            IN Engine(e.branches, DEFAULT_BRANCH_ID,
                      IF Len(mainBranch.transactions) > 0
                      THEN Len(mainBranch.transactions) - 1
                      ELSE INITIAL_TRANSACTION_INDEX)
       ELSE _initializeNewRepository(e)
  ELSE e

\* isAtTipOfBranch (a mutant: the index compared with the length, one too far)
isAtTipOfBranchOffByOne(e) ==
  e.index = Len(e.branches[e.branchId].transactions)

\* const isAtTipOfBranch = this._currentTransactionIndex === length - 1
isAtTipOfBranch(e) ==
  e.index = Len(e.branches[e.branchId].transactions) - 1

\* the forked branch (a mutant: the parent's initialContent instead of its
\* reconstructed text)
ForkedBranchStaleContent(e, newBranchName) ==
  [id |-> newBranchName,
   parentBranchId |-> e.branchId,
   parentTransactionIndex |-> e.index,
   initialContent |-> e.branches[e.branchId].initialContent,
   transactions |-> <<>>]

\* the forked branch (a mutant: no parent is recorded)
ForkedBranchWithoutParent(e, newBranchName) ==
  [id |-> newBranchName,
   parentBranchId |-> null,
   parentTransactionIndex |-> INITIAL_TRANSACTION_INDEX,
   initialContent |-> _reconstructText(e.branches, e.branchId, e.index),
   transactions |-> <<>>]

\* the branch object a fork stores under newBranchName
ForkedBranch(e, newBranchName) ==
  [id |-> newBranchName,
   parentBranchId |-> e.branchId,
   parentTransactionIndex |-> e.index,
   initialContent |-> _reconstructText(e.branches, e.branchId, e.index),
   transactions |-> <<>>]

\* _commitOperation(opArray): the fields afterwards; generatedId is what
\* this._generateId() returns when the fork path calls it
_commitOperation(e, opArray, generatedId) ==
  LET e1 == _getOrCreateCurrentBranch(e)
      currentBranch == e1.branches[e1.branchId]
      newBranchName == BRANCH_ID_AUTOMATIC_PREFIX \o SubSeq(generatedId, 1, 12)
      \* the fork: this._branches[newBranchName] = {...}, the pointer moves to it
      e2 == IF ~isAtTipOfBranch(e1)
            THEN Engine(Put(e1.branches, newBranchName, ForkedBranch(e1, newBranchName)),
                        newBranchName, INITIAL_TRANSACTION_INDEX)
            ELSE e1
      \* targetBranchObject === currentBranch: a fork made a new object
      targetIsCurrent == isAtTipOfBranch(e1)
      \* the truncation block
      truncated ==
        IF targetIsCurrent /\ e2.index < Len(currentBranch.transactions) - 1
        THEN [e2.branches EXCEPT
                ![e1.branchId].transactions = SubSeq(@, 1, e2.index + 1)]
        ELSE e2.branches
      \* targetBranchObject.transactions.push(opArray)
      pushed == [truncated EXCEPT ![e2.branchId].transactions = Append(@, opArray)]
  IN Engine(pushed, e2.branchId, Len(pushed[e2.branchId].transactions) - 1)

\* the property names every object literal inherits from Object.prototype
\* (this._branches = {}), each with a truthy value
ObjectPrototypeProperties ==
  {"constructor", "hasOwnProperty", "isPrototypeOf", "propertyIsEnumerable",
   "toLocaleString", "toString", "valueOf", "__proto__"}

\* this._branches[branchName] is truthy: an own key (every branch is an object)
\* or a property found on the prototype
HasTruthyProperty(branches, branchName) ==
  branchName \in DOMAIN branches \cup ObjectPrototypeProperties

\* createBranch(branchName)
createBranch(e, branchName) ==
  IF branchName = "" \/ HasTruthyProperty(e.branches, branchName)
  THEN Returns(e, "false")
  ELSE IF e.branchId \notin DOMAIN e.branches
  THEN Returns(e, "false")
  ELSE Returns(Engine(Put(e.branches, branchName,
                          [id |-> branchName,
                           parentBranchId |-> e.branchId,
                           parentTransactionIndex |-> e.index,
                           initialContent |->
                             _reconstructText(e.branches, e.branchId, e.index),
                           transactions |-> <<>>]),
                      branchName, INITIAL_TRANSACTION_INDEX),
               "true")

\* indexIsValid (a mutant: the length itself passes as an index)
indexIsValidUpToLength(transactionIndex, length) ==
  /\ transactionIndex >= INITIAL_TRANSACTION_INDEX
  /\ transactionIndex <= length

\* const indexIsValid = typeof transactionIndex === 'number' && ... , for an integer
indexIsValid(transactionIndex, length) ==
  /\ transactionIndex >= INITIAL_TRANSACTION_INDEX
  /\ transactionIndex < length

\* switchToVersion(branchId, transactionIndex), transactionIndex an integer
switchToVersion(e, branchId, transactionIndex) ==
  IF branchId \notin DOMAIN e.branches
  THEN Returns(e, "false")
  ELSE IF e.branchId = branchId /\ e.index = transactionIndex
  THEN Returns(e, "true")
  ELSE LET length == Len(e.branches[branchId].transactions)
           outOfBounds ==
             /\ ~indexIsValid(transactionIndex, length)
             /\ transactionIndex # INITIAL_TRANSACTION_INDEX
             /\ ~(transactionIndex = INITIAL_TRANSACTION_INDEX /\ length = 0)
             /\ (transactionIndex < INITIAL_TRANSACTION_INDEX
                   \/ transactionIndex >= length)
       IN IF outOfBounds
          THEN Returns(e, "false")
          ELSE Returns(Engine(e.branches, branchId, transactionIndex), "true")

\* the values undefined and NaN
JsUndefined == [t |-> "undefined", n |-> 0, s |-> ""]
JsNaN == [t |-> "number", n |-> 0, s |-> NotANumber]

\* ToNumber, as the relational operators apply it to an operand
ToNumber(v) ==
  CASE v.t = "number" -> v
    [] v.t = "string" -> IF StringToNumber(v.s).t = "number"
                         THEN StringToNumber(v.s) ELSE JsNaN
    [] v.t = "undefined" -> JsNaN
    [] OTHER -> Num(0)

\* v < n, v >= n and v === n for a value v and an integer n; a comparison
\* with NaN is false
JsLessThan(v, n) == ToNumber(v) # JsNaN /\ ToNumber(v).n < n
JsAtLeast(v, n) == ToNumber(v) # JsNaN /\ ToNumber(v).n >= n
JsStrictEquals(v, n) == v = Num(n)

\* switchToVersion(branchId, transactionIndex) for any value of
\* transactionIndex: what it returns, and the pointer afterwards, whose
\* index is a value too
switchToVersionValue(e, branchId, transactionIndex) ==
  LET unchanged == [ret |-> "false", branchId |-> e.branchId, index |-> Num(e.index)]
  IN IF branchId \notin DOMAIN e.branches
     THEN unchanged
     ELSE IF e.branchId = branchId /\ JsStrictEquals(transactionIndex, e.index)
     THEN [unchanged EXCEPT !.ret = "true"]
     ELSE LET length == Len(e.branches[branchId].transactions)
              indexValid ==
                /\ transactionIndex.t = "number"
                /\ JsAtLeast(transactionIndex, INITIAL_TRANSACTION_INDEX)
                /\ JsLessThan(transactionIndex, length)
              outOfBounds ==
                /\ ~indexValid
                /\ ~JsStrictEquals(transactionIndex, INITIAL_TRANSACTION_INDEX)
                /\ ~(JsStrictEquals(transactionIndex, INITIAL_TRANSACTION_INDEX)
                       /\ length = 0)
                /\ (JsLessThan(transactionIndex, INITIAL_TRANSACTION_INDEX)
                      \/ JsAtLeast(transactionIndex, length))
          IN IF outOfBounds
             THEN unchanged
             ELSE [ret |-> "true", branchId |-> branchId, index |-> transactionIndex]

\* undo (a mutant: no stop at the initial content)
undoWithoutFloor(e) ==
  IF e.branchId \notin DOMAIN e.branches THEN Returns(e, "false")
  ELSE Returns(Engine(e.branches, e.branchId, e.index - 1), "true")

\* undo (a mutant: the undone transaction is popped off the log)
undoPoppingLog(e) ==
  IF e.branchId \notin DOMAIN e.branches THEN Returns(e, "false")
  ELSE IF e.index = INITIAL_TRANSACTION_INDEX THEN Returns(e, "false")
  ELSE Returns(Engine([e.branches EXCEPT
                         ![e.branchId].transactions = SubSeq(@, 1, e.index)],
                      e.branchId, e.index - 1),
               "true")

\* undo (a mutant: at the origin of a forked branch the pointer moves to the
\* coordinate of the parent the branch was forked from)
undoCrossingToParent(e) ==
  IF e.branchId \notin DOMAIN e.branches THEN Returns(e, "false")
  ELSE IF e.index = INITIAL_TRANSACTION_INDEX
  THEN LET currentBranch == e.branches[e.branchId]
       IN IF currentBranch.parentBranchId \in DOMAIN e.branches
          THEN Returns(Engine(e.branches, currentBranch.parentBranchId,
                              currentBranch.parentTransactionIndex),
                       "true")
          ELSE Returns(e, "false")
  ELSE Returns(Engine(e.branches, e.branchId, e.index - 1), "true")

\* undo()
undo(e) ==
  IF e.branchId \notin DOMAIN e.branches THEN Returns(e, "false")
  ELSE IF e.index = INITIAL_TRANSACTION_INDEX THEN Returns(e, "false")
  ELSE Returns(Engine(e.branches, e.branchId, e.index - 1), "true")

\* redo (a mutant: the tip itself passes the test, so the index runs past it)
redoPastTip(e) ==
  IF e.branchId \notin DOMAIN e.branches THEN Returns(e, "false")
  ELSE IF e.index <= Len(e.branches[e.branchId].transactions) - 1
  THEN Returns(Engine(e.branches, e.branchId, e.index + 1), "true")
  ELSE Returns(e, "false")

\* redo (a mutant: the pointer jumps to the tip instead of one step forward)
redoToTip(e) ==
  IF e.branchId \notin DOMAIN e.branches THEN Returns(e, "false")
  ELSE IF e.index < Len(e.branches[e.branchId].transactions) - 1
  THEN Returns(Engine(e.branches, e.branchId,
                      Len(e.branches[e.branchId].transactions) - 1),
               "true")
  ELSE Returns(e, "false")

\* redo()
redo(e) ==
  IF e.branchId \notin DOMAIN e.branches THEN Returns(e, "false")
  ELSE IF e.index < Len(e.branches[e.branchId].transactions) - 1
  THEN Returns(Engine(e.branches, e.branchId, e.index + 1), "true")
  ELSE Returns(e, "false")

\* a value passed as branchesData: an object holding a table, or null
JsObject(table) == [type |-> "object", object |-> table]
NullData == [type |-> "null", object |-> <<>>]

\* loadAllBranchesData(branchesData)
loadAllBranchesData(e, branchesData) ==
  IF branchesData.type # "object"
  THEN Returns(e, "false")
  ELSE LET branches == branchesData.object
       IN IF DEFAULT_BRANCH_ID \in DOMAIN branches
               /\ Len(branches[DEFAULT_BRANCH_ID].transactions) > 0
          THEN Returns(Engine(branches, DEFAULT_BRANCH_ID,
                              Len(branches[DEFAULT_BRANCH_ID].transactions) - 1),
                       "true")
          ELSE IF DEFAULT_BRANCH_ID \in DOMAIN branches
          THEN Returns(Engine(branches, DEFAULT_BRANCH_ID, INITIAL_TRANSACTION_INDEX),
                       "true")
          ELSE Returns(_initializeNewRepository(Engine(branches, e.branchId, e.index)),
                       "true")

\* a value loadUserPreferences returns: null, or the parsed preferences object
\* whose currentTransactionIndex is any JavaScript value
NullPrefs == [type |-> "null", currentBranchId |-> "", currentTransactionIndex |-> JsNull]
Preferences(currentBranchId, currentTransactionIndex) ==
  [type |-> "object", currentBranchId |-> currentBranchId,
   currentTransactionIndex |-> currentTransactionIndex]

\* StorageManagerV2.loadHistory / loadUserPreferences: both return null
\* whatever is stored (the reading code is commented out)
loadHistory(storage) == NullData
loadUserPreferences(storage) == NullPrefs

\* the tip of a branch: length - 1, or INITIAL_TRANSACTION_INDEX when it is empty
TipOf(branch) ==
  IF Len(branch.transactions) > 0
  THEN Len(branch.transactions) - 1
  ELSE INITIAL_TRANSACTION_INDEX

\* _loadHistoryAndPreferences (a mutant: an invalid index resets to the
\* initial state of the preferred branch instead of its tip)
_loadHistoryAndPreferencesResettingToInitial(e, history, prefs) ==
  IF prefs.type = "object" /\ prefs.currentBranchId \in DOMAIN history
  THEN LET branch == history[prefs.currentBranchId]
           index == prefs.currentTransactionIndex
       IN IF index.t = "number" /\ indexIsValid(index.n, Len(branch.transactions))
          THEN Engine(history, prefs.currentBranchId, index.n)
          ELSE Engine(history, prefs.currentBranchId, INITIAL_TRANSACTION_INDEX)
  ELSE IF DEFAULT_BRANCH_ID \notin DOMAIN history
  THEN _initializeNewRepository(Engine(history, e.branchId, e.index))
  ELSE Engine(history, DEFAULT_BRANCH_ID, TipOf(history[DEFAULT_BRANCH_ID]))

\* _loadHistoryAndPreferences(history, prefs): the fields afterwards
_loadHistoryAndPreferences(e, history, prefs) ==
  IF prefs.type = "object" /\ prefs.currentBranchId \in DOMAIN history
  THEN LET branch == history[prefs.currentBranchId]
           index == prefs.currentTransactionIndex
       IN IF index.t = "number" /\ indexIsValid(index.n, Len(branch.transactions))
          THEN Engine(history, prefs.currentBranchId, index.n)
          ELSE Engine(history, prefs.currentBranchId, TipOf(branch))
  ELSE IF DEFAULT_BRANCH_ID \notin DOMAIN history
  THEN _initializeNewRepository(Engine(history, e.branchId, e.index))
  ELSE Engine(history, DEFAULT_BRANCH_ID, TipOf(history[DEFAULT_BRANCH_ID]))

\* init(), up to the update of the editor: the fields afterwards, given what
\* the storage manager's loadHistory() and loadUserPreferences() returned
init(e, loadedHistory, loadedPrefs) ==
  IF loadedHistory.type = "object"
  THEN _loadHistoryAndPreferences(e, loadedHistory.object, loadedPrefs)
  ELSE _initializeNewRepository(e)

(***************************************************************************)
(* The queries.  Where an operation array or null is expected, null is     *)
(* NonArray(JsNull).                                                       *)
(***************************************************************************)
\* if (x), x an array (always truthy) or a value that is no array
Truthy(x) == ArrayIsArray(x) \/ ToBoolean(x[0])

\* _getOperationInfo(opArray): {type, description}
_getOperationInfo(opArray) ==
  IF ~ArrayIsArray(opArray) \/ Len(opArray) = 0
  THEN [type |-> OP_TYPE_UNKNOWN, description |-> "Invalid or empty operation array"]
  ELSE LET index == opArray[1]
       IN IF Len(opArray) = 2 /\ opArray[2].t = "string"
          THEN [type |-> OP_TYPE_ADD,
                description |-> "Typed '" \o opArray[2].s \o "' at index "
                                  \o JsToString(index)]
          ELSE IF Len(opArray) = 2 /\ opArray[2].t = "number"
          THEN [type |-> OP_TYPE_DELETE_MULTI,
                description |-> "Deleted " \o JsToString(opArray[2])
                                  \o " characters starting at index "
                                  \o JsToString(index)]
          ELSE IF Len(opArray) = 1 /\ index.t = "number"
          THEN [type |-> OP_TYPE_DELETE,
                description |-> "Deleted character at index " \o JsToString(index)]
          ELSE [type |-> OP_TYPE_UNKNOWN,
                description |-> "Unknown or malformed operation"]

\* the record of the state queries (a mutant: the raw operation is left out)
StateInfoWithoutOp(branchId, transactionIndex, t, opInfo, opArray) ==
  [id |-> [branchId |-> branchId, index |-> transactionIndex],
   branchId |-> branchId,
   transactionIndex |-> transactionIndex,
   timestamp |-> DateNow(t),
   type |-> opInfo.type,
   message |-> opInfo.description,
   op |-> NonArray(JsNull)]

\* the record both state queries return; t is the clock when the query runs
StateInfo(branchId, transactionIndex, t, opInfo, opArray) ==
  [id |-> [branchId |-> branchId, index |-> transactionIndex],
   branchId |-> branchId,
   transactionIndex |-> transactionIndex,
   timestamp |-> DateNow(t),
   type |-> opInfo.type,
   message |-> opInfo.description,
   op |-> opArray]

\* getStateInfoAt(branchId, transactionIndex), transactionIndex an integer
getStateInfoAt(e, branchId, transactionIndex, t) ==
  IF branchId \notin DOMAIN e.branches
  THEN Returns(e, null)
  ELSE LET branch == e.branches[branchId]
       IN IF ~indexIsValid(transactionIndex, Len(branch.transactions))
          THEN Returns(e, null)
          ELSE IF transactionIndex # INITIAL_TRANSACTION_INDEX
          THEN LET opArray == branch.transactions[transactionIndex + 1]
               IN Returns(e, StateInfo(branchId, transactionIndex, t,
                                       _getOperationInfo(opArray), opArray))
          ELSE LET hasParentOp ==
                     /\ branch.parentBranchId \in DOMAIN e.branches
                     /\ branch.parentTransactionIndex # INITIAL_TRANSACTION_INDEX
                     /\ branch.parentTransactionIndex
                          < Len(e.branches[branch.parentBranchId].transactions)
                   parentOpMessage ==
                     IF hasParentOp
                     THEN "from op ["
                            \o JoinComma(e.branches[branch.parentBranchId]
                                           .transactions[branch.parentTransactionIndex + 1])
                            \o "] on " \o branch.parentBranchId
                     ELSE "from " \o branch.parentBranchId
                   opInfo ==
                     IF branch.id = DEFAULT_BRANCH_ID
                     THEN [type |-> OP_TYPE_INITIAL,
                           description |-> "Initial empty content"]
                     ELSE [type |-> OP_TYPE_BRANCH_CREATED,
                           description |-> "Branched to " \o branch.id
                                             \o " (initial state) " \o parentOpMessage]
               IN Returns(e, StateInfo(branchId, transactionIndex, t, opInfo,
                                       NonArray(JsNull)))

\* getCurrentStateInfo(): an index out of bounds is first moved to the tip
getCurrentStateInfo(e, t) ==
  IF e.branchId \notin DOMAIN e.branches
  THEN Returns(e, null)
  ELSE LET branch == e.branches[e.branchId]
           length == Len(branch.transactions)
           inBounds == e.index >= 0 /\ e.index < length
           \* this._currentTransactionIndex after the recovery block
           index == IF e.index = INITIAL_TRANSACTION_INDEX \/ inBounds
                    THEN e.index
                    ELSE IF length - 1 >= 0 THEN length - 1
                    ELSE INITIAL_TRANSACTION_INDEX
           currentOpArray ==
             IF index >= 0 THEN branch.transactions[index + 1] ELSE NonArray(JsNull)
           initialInfo ==
             IF branch.id = DEFAULT_BRANCH_ID
             THEN [type |-> OP_TYPE_INITIAL, description |-> "Initial empty content"]
             ELSE [type |-> OP_TYPE_BRANCH_CREATED,
                   description |-> "Branched to " \o branch.id \o " (initial state)"]
           opInfo ==
             IF e.index # INITIAL_TRANSACTION_INDEX
             THEN IF Truthy(currentOpArray) THEN _getOperationInfo(currentOpArray)
                  ELSE IF index = INITIAL_TRANSACTION_INDEX THEN initialInfo
                  ELSE [type |-> OP_TYPE_UNKNOWN,
                        description |-> "State information unavailable"]
             ELSE initialInfo
       IN Returns(Engine(e.branches, e.branchId, index),
                  StateInfo(e.branchId, index, t, opInfo, currentOpArray))

\* _reconstructText (a mutant: the replayed text is written back as the
\* branch's initialContent, as when the replay splices the stored content)
_reconstructTextInPlace(e, branchId, targetTransactionIndex) ==
  LET text == _reconstructText(e.branches, branchId, targetTransactionIndex)
  IN IF branchId \in DOMAIN e.branches
     THEN Returns(Engine([e.branches EXCEPT ![branchId].initialContent = text],
                         e.branchId, e.index),
                  text)
     ELSE Returns(e, text)

\* a call of _reconstructText: it assigns no field of the engine and splices
\* only the array that split('') made
_reconstructTextCall(e, branchId, targetTransactionIndex) ==
  Returns(e, _reconstructText(e.branches, branchId, targetTransactionIndex))

(***************************************************************************)
(* What a call does to the engine's collaborators.                         *)
(***************************************************************************)
\* _updateEditorContent: editorManager.setValue(text, true), updatePreviousContent(text)
_updateEditorContent(e) ==
  LET currentText == _reconstructText(e.branches, e.branchId, e.index)
  IN [value |-> currentText, _previousContent |-> currentText]

\* JSON.stringify of a value the engine saves
JSONstringify(value) == [json |-> value]

\* _saveUserPreferences -> StorageManagerV2.saveUserPreferences
_saveUserPreferences(e, storage) ==
  Put(storage, "textVersionControlV2_prefs",
      JSONstringify([currentBranchId |-> e.branchId,
                     currentTransactionIndex |-> e.index]))

\* _saveHistory -> StorageManagerV2.saveHistory
_saveHistory(e, storage) ==
  Put(storage, "textVersionControlV2_history", JSONstringify(e.branches))

\* _saveAllData (a mutant: only the preferences are saved)
_saveAllDataWithoutHistory(e, storage) == _saveUserPreferences(e, storage)

\* _saveAllData: the history, then the preferences
_saveAllData(e, storage) == _saveUserPreferences(e, _saveHistory(e, storage))

(***************************************************************************)
(* The snapshot-based VersionControl (text-version-control/app.js): every  *)
(* version stores the whole text.  Of a version the id, content and type   *)
(* are kept; timestamp and message are written and only displayed.         *)
(***************************************************************************)
Version(id, content, type) == [id |-> id, content |-> content, type |-> type]

\* parentVersion: null, written as a record so that it compares with
\* {branchId, versionIndex}
NullParentVersion == [branchId |-> null, versionIndex |-> -1]

\* the fields addVersion and the navigation assign
Snapshot(b, id, ix) == [branches |-> b, currentBranchId |-> id, currentVersionIndex |-> ix]

ThisSnapshot == Snapshot(this_branches, this_currentBranchId, currentVersionIndex)

\* the state the constructor leaves: main holds the initial version, and
\* loadUserPreferences() finds at most (main, 0) to navigate to
InitSnapshot ==
  /\ this_branches = [k \in {"main"} |->
                   [versions |-> <<Version(0, "", "initial")>>,
                    parentVersion |-> NullParentVersion]]
  /\ this_currentBranchId = "main"
  /\ currentVersionIndex = 0
  /\ isEditing = FALSE
  /\ previousContent = ""
  /\ editorValue = ""
  /\ timeouts = <<>>
  /\ inputPending = FALSE

\* createBranch(branchId, parentBranchId, parentVersionIndex): the table
\* afterwards; value is this.editor.value
createBranchFromVersion(table, branchId, parentBranchId, parentVersionIndex, value) ==
  Put(table, branchId,
      [versions |-> <<Version(0, value, "branch")>>,
       parentVersion |-> [branchId |-> parentBranchId,
                          versionIndex |-> parentVersionIndex]])

\* addVersion(type, content) at clock t, value being this.editor.value.
\* currentBranch is fetched once, before the fork, and the push and the new
\* index go through it.
addVersion(s, type, content, value, t) ==
  LET currentBranch == s.branches[s.currentBranchId]
      forks == s.currentVersionIndex < Len(currentBranch.versions) - 1
      newBranchId == "branch-" \o DateNow(t)
      forked == IF forks
                THEN createBranchFromVersion(s.branches, newBranchId, s.currentBranchId,
                                             s.currentVersionIndex, value)
                ELSE s.branches
      \* the object currentBranch is still in the table unless the fork has
      \* just replaced it under its own id
      pushed == IF forks /\ newBranchId = s.currentBranchId
                THEN forked
                ELSE [forked EXCEPT ![s.currentBranchId].versions =
                        Append(@, Version(Len(@), content, type))]
  IN Snapshot(pushed,
              IF forks THEN newBranchId ELSE s.currentBranchId,
              Len(currentBranch.versions))

\* navigateToVersion(branchId, versionIndex): the fields afterwards.  A
\* version that does not exist makes version.content throw after isEditing
\* and the pointer were assigned.
navigateToVersion(s, branchId, versionIndex, value, previous) ==
  IF versionIndex + 1 \in DOMAIN s.branches[branchId].versions
  THEN LET version == s.branches[branchId].versions[versionIndex + 1]
       IN [snapshot |-> Snapshot(s.branches, branchId, versionIndex),
           isEditing |-> FALSE,
           editorValue |-> version.content,
           previousContent |-> version.content]
  ELSE [snapshot |-> Snapshot(s.branches, branchId, versionIndex),
        isEditing |-> TRUE,
        editorValue |-> value,
        previousContent |-> previous]

(***************************************************************************)
(* The state machine.                                                      *)
(***************************************************************************)
\* the engines of a page that holds two of them
Instances == {1, 2}

\* the data object of the page: an exported table, main holding one typed
\* character
DataObject == 3

\* two engines have been constructed, each with an empty table object and an
\* editor of its own; the page holds one data object
InitInstances ==
  /\ heap = [o \in Instances \cup {DataObject} |->
              IF o = DataObject
              THEN [k \in {DEFAULT_BRANCH_ID} |->
                      [id |-> DEFAULT_BRANCH_ID,
                       parentBranchId |-> null,
                       parentTransactionIndex |-> INITIAL_TRANSACTION_INDEX,
                       initialContent |-> "",
                       transactions |-> << <<Num(0), Str("a")>> >>]]
              ELSE [k \in {} |-> 0]]
  /\ instances = [i \in Instances |->
                   [_branches |-> i, branchId |-> "", index |-> -1,
                    editor |-> [value |-> "", _previousContent |-> ""]]]

\* the state the constructors leave
\* the TimelineManager as constructed
InitTimeline ==
  /\ isDragging = FALSE
  /\ dragTarget = [branchId |-> null, currentBranchDraggableIndices |-> <<>>,
                   currentDragStartIndexOnList |-> 0, currentDragListIndex |-> 0,
                   startX |-> 0]

\* VersionControlV2 as constructed
InitSlots ==
  /\ v2_branches = [k \in {} |-> 0]
  /\ v2_currentBranchId = ""
  /\ v2_currentVersionId = 0   \* '', the id of no version
  /\ v2_generated = 0

Init ==
  /\ _branches = [k \in {} |-> 0]
  /\ _currentBranchId = ""
  /\ _currentTransactionIndex = -1
  /\ editor = [value |-> "", _previousContent |-> ""]
  /\ localStorage = [k \in {} |-> 0]
  /\ now = 0
  /\ started = FALSE
  /\ changes = 0
  /\ ticks = 0
  /\ InitSnapshot
  /\ callStack = <<>>
  /\ _isProgrammaticChange = FALSE
  /\ InitInstances
  /\ InitTimeline
  /\ InitSlots

\* the engine's fields are assigned; the objects of the other program are not
\* touched
SetEngine(e) ==
  /\ _branches' = e.branches
  /\ _currentBranchId' = e.branchId
  /\ _currentTransactionIndex' = e.index
  /\ UNCHANGED <<snapshotVars, callVars, instanceVars, timelineVars, slotVars>>

\* init() with a storage manager whose loadHistory() and loadUserPreferences()
\* return loadedHistory and loadedPrefs: the table is set up, the editor synced
\* and all data saved
InitLoadedCall(loadedHistory, loadedPrefs) ==
  LET e == init(This, loadedHistory, loadedPrefs)
  IN /\ SetEngine(e)
     /\ editor' = _updateEditorContent(e)
     /\ localStorage' = _saveAllData(e, localStorage)
     /\ started' = TRUE
     /\ UNCHANGED <<now, changes, ticks>>

\* init() with StorageManagerV2: both loads return null, so a new repository
\* is set up and saved
InitCall ==
  InitLoadedCall(loadHistory(localStorage), loadUserPreferences(localStorage))

\* a record* call: _commitOperation, then the editor is synced and all data saved
Commit(opArray) ==
  \E rnd \in RandomTokens :
    LET e == _commitOperation(This, opArray, _generateId(now, rnd))
    IN /\ SetEngine(e)
       /\ editor' = _updateEditorContent(e)
       /\ localStorage' = _saveAllData(e, localStorage)
       /\ changes' = changes + 1
       /\ UNCHANGED <<now, started, ticks>>

recordCharacterTyped(index, char) ==
  Commit(<<Num(index), Str(char)>>)

recordCharacterDeletion(index) ==
  Commit(<<Num(index)>>)

recordMultipleCharacterDeletion(startIndex, count) ==
  Commit(<<Num(startIndex), Num(count)>>)

\* createBranch(branchName): on success the editor is synced and all data saved
CreateBranchCall(branchName) ==
  LET r == createBranch(This, branchName)
  IN /\ SetEngine(r.engine)
     /\ IF r.ret = "true"
        THEN /\ editor' = _updateEditorContent(r.engine)
             /\ localStorage' = _saveAllData(r.engine, localStorage)
             /\ changes' = changes + 1
        ELSE UNCHANGED <<editor, localStorage, changes>>
     /\ UNCHANGED <<now, started, ticks>>

\* a navigation call that moved the pointer syncs the editor and saves the preferences
Navigate(r) ==
  /\ SetEngine(r.engine)
  /\ IF r.ret = "true" /\ r.engine # This
     THEN /\ editor' = _updateEditorContent(r.engine)
          /\ localStorage' = _saveUserPreferences(r.engine, localStorage)
     ELSE UNCHANGED <<editor, localStorage>>
  /\ UNCHANGED <<now, started, changes, ticks>>

SwitchToVersionCall(branchId, transactionIndex) ==
  Navigate(switchToVersion(This, branchId, transactionIndex))

UndoCall == Navigate(undo(This))

RedoCall == Navigate(redo(This))

\* loadAllBranchesData(branchesData): on success the editor is synced and all
\* data saved
LoadAllBranchesDataCall(branchesData) ==
  LET r == loadAllBranchesData(This, branchesData)
  IN /\ SetEngine(r.engine)
     /\ IF r.ret = "true"
        THEN /\ editor' = _updateEditorContent(r.engine)
             /\ localStorage' = _saveAllData(r.engine, localStorage)
             /\ changes' = changes + 1
        ELSE UNCHANGED <<editor, localStorage, changes>>
     /\ UNCHANGED <<now, started, ticks>>

\* getStateInfoAt(branchId, transactionIndex), as the timeline calls it
GetStateInfoAtCall(branchId, transactionIndex) ==
  /\ SetEngine(getStateInfoAt(This, branchId, transactionIndex, now).engine)
  /\ UNCHANGED <<editor, localStorage, now, started, changes, ticks>>

\* getCurrentStateInfo()
GetCurrentStateInfoCall ==
  /\ SetEngine(getCurrentStateInfo(This, now).engine)
  /\ UNCHANGED <<editor, localStorage, now, started, changes, ticks>>

\* time passes
Tick ==
  /\ ticks < MaxTicks
  /\ \E step \in TickSteps : now' = now + step
  /\ ticks' = ticks + 1
  /\ UNCHANGED <<_branches, _currentBranchId, _currentTransactionIndex, editor,
                 localStorage, started, changes, snapshotVars, callVars, instanceVars, timelineVars, slotVars>>

\* the page calls init() once, before anything else
InitStep == ~started /\ InitCall

TypedStep ==
  /\ started /\ changes < MaxChanges
  /\ \E typed \in TypedInputs : recordCharacterTyped(typed[1], typed[2])

DeletionStep ==
  /\ started /\ changes < MaxChanges
  /\ \E index \in DeletedIndices : recordCharacterDeletion(index)

MultipleDeletionStep ==
  /\ started /\ changes < MaxChanges
  /\ \E range \in DeletedRanges : recordMultipleCharacterDeletion(range[1], range[2])

CreateBranchStep ==
  /\ started
  /\ \E branchName \in BranchNameInputs :
       /\ createBranch(This, branchName).ret = "true" => changes < MaxChanges
       /\ CreateBranchCall(branchName)

\* the indices tried on a branch: from -2 up to one past its tip
SwitchIndexInputs(branchId) ==
  IF branchId \in DOMAIN _branches
  THEN -2..Len(_branches[branchId].transactions)
  ELSE -2..0

SwitchToVersionStep ==
  /\ started
  /\ \E branchId \in DOMAIN _branches \cup {UnknownBranchId} :
       \E transactionIndex \in SwitchIndexInputs(branchId) :
         SwitchToVersionCall(branchId, transactionIndex)

\* the timeline asks about every branch of the table, at -1 and at the index of
\* each of its transactions
GetStateInfoAtStep ==
  /\ started
  /\ \E branchId \in DOMAIN _branches :
       \E transactionIndex \in -1..(Len(_branches[branchId].transactions) - 1) :
         GetStateInfoAtCall(branchId, transactionIndex)

GetCurrentStateInfoStep == started /\ GetCurrentStateInfoCall

UndoStep == started /\ UndoCall

RedoStep == started /\ RedoCall

Next ==
  \/ InitStep
  \/ TypedStep
  \/ DeletionStep
  \/ MultipleDeletionStep
  \/ CreateBranchStep
  \/ SwitchToVersionStep
  \/ UndoStep
  \/ RedoStep
  \/ GetStateInfoAtStep
  \/ GetCurrentStateInfoStep
  \/ Tick

Spec == Init /\ [][Next]_vars

(***************************************************************************)
(* The replay of loaded logs: a table arrives through                      *)
(* loadAllBranchesData, its log drawn from LogEntries, and is then read by *)
(* the navigation calls and the queries.                                   *)
(***************************************************************************)
\* the log entries a loaded table may hold, as JavaScript writes them:
\* [0,"a"], [0], [0,2], null, "x", [], [0,"a",1], ["x"], [0,null], [null,"b"]
LogEntries ==
  << <<Num(0), Str("a")>>,
     <<Num(0)>>,
     <<Num(0), Num(2)>>,
     NonArray(JsNull),
     NonArray(Str("x")),
     <<>>,
     <<Num(0), Str("a"), Num(1)>>,
     <<Str("x")>>,
     <<Num(0), JsNull>>,
     <<JsNull, Str("b")>> >>

\* the initialContent of a loaded root
LoadedContents == {"xyz"}

\* a loaded branch
LoadedBranch(id, initialContent, transactions) ==
  [id |-> id,
   parentBranchId |-> null,
   parentTransactionIndex |-> INITIAL_TRANSACTION_INDEX,
   initialContent |-> initialContent,
   transactions |-> transactions]

\* a table holding the one branch id
LoadedTable(id, initialContent, transactions) ==
  [k \in {id} |-> LoadedBranch(id, initialContent, transactions)]

LoadAllBranchesDataStep ==
  /\ started /\ changes < MaxLoads
  /\ \/ LoadAllBranchesDataCall(NullData)
     \/ \E id \in {"main", "feature"}, initialContent \in LoadedContents,
           length \in 0..MaxLog :
          \E choice \in [1..length -> 1..Len(LogEntries)] :
            LoadAllBranchesDataCall(
              JsObject(LoadedTable(id, initialContent,
                                   [j \in 1..length |-> LogEntries[choice[j]]])))

NextReplay ==
  \/ InitStep
  \/ LoadAllBranchesDataStep
  \/ SwitchToVersionStep
  \/ UndoStep
  \/ RedoStep
  \/ GetStateInfoAtStep
  \/ GetCurrentStateInfoStep

SpecReplay == Init /\ [][NextReplay]_vars

(***************************************************************************)
(* Loading stored data: init() runs with a storage manager that hands back *)
(* a stored history and stored preferences (the constructor takes any      *)
(* storage manager), a history file is imported, and the pointer is moved. *)
(***************************************************************************)
\* the logs a stored branch may hold: up to MaxLog recorded operations
StoredLogs ==
  UNION {[1..length -> {<<Num(typed[1]), Str(typed[2])>> : typed \in TypedInputs}
                         \cup {<<Num(index)>> : index \in DeletedIndices}
                         \cup {<<Num(range[1]), Num(range[2])>> : range \in DeletedRanges}] :
         length \in 0..MaxLog}

\* the logs of the stored branch "feature"
StoredFeatureLogs == {<<>>, << <<Num(0), Str("a")>> >>}

\* a stored branch "feature", forked from the initial state of main
StoredFeature(transactions) ==
  [id |-> "feature",
   parentBranchId |-> DEFAULT_BRANCH_ID,
   parentTransactionIndex |-> INITIAL_TRANSACTION_INDEX,
   initialContent |-> "",
   transactions |-> transactions]

\* the stored tables: with or without main, with or without feature
StoredTables ==
  LET mains == {[k \in {} |-> 0]}
                 \cup {LoadedTable(DEFAULT_BRANCH_ID, "", log) : log \in StoredLogs}
      features == {[k \in {} |-> 0]}
                    \cup {[k \in {"feature"} |-> StoredFeature(log)] :
                          log \in StoredFeatureLogs}
  IN {[k \in DOMAIN m \cup DOMAIN f |-> IF k \in DOMAIN m THEN m[k] ELSE f[k]] :
      m \in mains, f \in features}

\* what loadHistory() may return: null or a parsed table
StoredHistories == {NullData} \cup {JsObject(table) : table \in StoredTables}

\* what loadUserPreferences() may return: null, or a pointer naming main,
\* feature or a branch no table holds, at an index from -2 to MaxLog or at
\* the string "0"
StoredPreferences ==
  {NullPrefs}
    \cup {Preferences(branchId, Num(index)) :
          branchId \in {DEFAULT_BRANCH_ID, "feature", UnknownBranchId},
          index \in -2..MaxLog}
    \cup {Preferences(branchId, Str("0")) :
          branchId \in {DEFAULT_BRANCH_ID, "feature", UnknownBranchId}}

InitStoredStep ==
  /\ ~started
  /\ \E loadedHistory \in StoredHistories, loadedPrefs \in StoredPreferences :
       InitLoadedCall(loadedHistory, loadedPrefs)

\* a stored table arrives through the import of a history file
LoadStoredHistoryStep ==
  /\ started /\ changes < MaxLoads
  /\ \E branchesData \in StoredHistories : LoadAllBranchesDataCall(branchesData)

NextLoad ==
  \/ InitStoredStep
  \/ LoadStoredHistoryStep
  \/ SwitchToVersionStep
  \/ UndoStep
  \/ RedoStep

SpecLoad == Init /\ [][NextLoad]_vars

(***************************************************************************)
(* Sessions: the page is loaded again.  The objects are constructed anew   *)
(* and init() runs; only localStorage outlives the session.                *)
(***************************************************************************)
NewSessionStep ==
  /\ started
  /\ _branches' = [k \in {} |-> 0]
  /\ _currentBranchId' = ""
  /\ _currentTransactionIndex' = -1
  /\ editor' = [value |-> "", _previousContent |-> ""]
  /\ started' = FALSE
  /\ UNCHANGED <<localStorage, now, changes, ticks, snapshotVars, callVars, instanceVars, timelineVars, slotVars>>

NextSessions ==
  \/ InitStep
  \/ TypedStep
  \/ DeletionStep
  \/ MultipleDeletionStep
  \/ CreateBranchStep
  \/ SwitchToVersionStep
  \/ UndoStep
  \/ RedoStep
  \/ NewSessionStep

SpecSessions == Init /\ [][NextSessions]_vars

(***************************************************************************)
(* The snapshot-based program at work: the browser delivers the events of  *)
(* typing, of a deletion key (keydown, then input, then the deferred       *)
(* check) and of the navigation.                                           *)
(***************************************************************************)
SetSnapshot(s) ==
  /\ this_branches' = s.branches
  /\ this_currentBranchId' = s.currentBranchId
  /\ currentVersionIndex' = s.currentVersionIndex

\* the engine of the other program and its collaborators
engineVars == <<_branches, _currentBranchId, _currentTransactionIndex, editor,
                localStorage, started, callVars, instanceVars, timelineVars, slotVars>>

\* no key is in flight
BrowserIdle ==
  /\ ~inputPending
  /\ timeouts = <<>>

\* fewer than MaxVersions versions have been added and the text is shorter
\* than MaxVersions characters
RoomForVersions ==
  /\ changes < MaxVersions
  /\ Len(editorValue) < MaxVersions

\* a character is typed at the end of the text; the input event runs recordKeypress
TypeCharacterStep ==
  /\ BrowserIdle /\ RoomForVersions
  /\ \E char \in TypedCharacters :
       LET currentContent == editorValue \o char
       IN /\ editorValue' = currentContent
          /\ IF isEditing
             THEN UNCHANGED <<this_branches, this_currentBranchId, currentVersionIndex,
                              previousContent, changes>>
             ELSE /\ IF Len(currentContent) > Len(previousContent)
                     THEN /\ SetSnapshot(addVersion(ThisSnapshot, "keypress",
                                                    currentContent, currentContent, now))
                          /\ changes' = changes + 1
                     ELSE UNCHANGED <<this_branches, this_currentBranchId,
                                      currentVersionIndex, changes>>
                  /\ previousContent' = currentContent
  /\ UNCHANGED <<isEditing, timeouts, inputPending, engineVars, now, ticks>>

\* keydown of Backspace or Delete runs recordDeletion, which queues the
\* deferred check; the browser then deletes a character if there is one
DeletionKeydownStep ==
  /\ BrowserIdle
  /\ timeouts' = IF isEditing THEN timeouts
                 ELSE Append(timeouts, [currentContent |-> editorValue])
  /\ inputPending' = (editorValue # "")
  /\ UNCHANGED <<this_branches, this_currentBranchId, currentVersionIndex, isEditing,
                 previousContent, editorValue, engineVars, changes, now, ticks>>

\* the browser has deleted the last character; the input event runs recordKeypress
DeletionInputStep ==
  /\ inputPending
  /\ editorValue' = SubSeq(editorValue, 1, Len(editorValue) - 1)
  /\ inputPending' = FALSE
  /\ previousContent' = IF isEditing THEN previousContent ELSE editorValue'
  /\ UNCHANGED <<this_branches, this_currentBranchId, currentVersionIndex, isEditing,
                 timeouts, engineVars, changes, now, ticks>>

\* the callback queued by recordDeletion runs, after the input event
DeferredCheckStep ==
  /\ timeouts # <<>>
  /\ ~inputPending
  /\ timeouts' = Tail(timeouts)
  /\ IF Len(editorValue) < Len(previousContent)
     THEN /\ SetSnapshot(addVersion(ThisSnapshot, "deletion", editorValue, editorValue,
                                    now))
          /\ previousContent' = editorValue
          /\ changes' = changes + 1
     ELSE UNCHANGED <<this_branches, this_currentBranchId, currentVersionIndex,
                      previousContent, changes>>
  /\ UNCHANGED <<isEditing, editorValue, inputPending, engineVars, now, ticks>>

NavigateSnapshot(r) ==
  /\ SetSnapshot(r.snapshot)
  /\ isEditing' = r.isEditing
  /\ editorValue' = r.editorValue
  /\ previousContent' = r.previousContent
  /\ UNCHANGED <<timeouts, inputPending, engineVars, changes, now, ticks>>

\* a click on the marker of a version
NavigateToVersionStep ==
  /\ BrowserIdle
  /\ \E branchId \in DOMAIN this_branches :
       \E versionIndex \in 0..(Len(this_branches[branchId].versions) - 1) :
         NavigateSnapshot(navigateToVersion(ThisSnapshot, branchId, versionIndex,
                                            editorValue, previousContent))

\* Ctrl+Z: navigateToPreviousVersion()
NavigateToPreviousVersionStep ==
  /\ BrowserIdle
  /\ LET currentBranch == this_branches[this_currentBranchId]
     IN IF currentVersionIndex > 0
        THEN NavigateSnapshot(navigateToVersion(ThisSnapshot, this_currentBranchId,
                                                currentVersionIndex - 1,
                                                editorValue, previousContent))
        ELSE IF currentBranch.parentVersion # NullParentVersion
        THEN NavigateSnapshot(navigateToVersion(ThisSnapshot,
                                                currentBranch.parentVersion.branchId,
                                                currentBranch.parentVersion.versionIndex,
                                                editorValue, previousContent))
        ELSE UNCHANGED vars

\* Ctrl+Shift+Z: navigateToNextVersion()
NavigateToNextVersionStep ==
  /\ BrowserIdle
  /\ IF currentVersionIndex < Len(this_branches[this_currentBranchId].versions) - 1
     THEN NavigateSnapshot(navigateToVersion(ThisSnapshot, this_currentBranchId,
                                             currentVersionIndex + 1,
                                             editorValue, previousContent))
     ELSE UNCHANGED vars

NextSnapshot ==
  \/ TypeCharacterStep
  \/ DeletionKeydownStep
  \/ DeletionInputStep
  \/ DeferredCheckStep
  \/ NavigateToVersionStep
  \/ NavigateToPreviousVersionStep
  \/ NavigateToNextVersionStep
  \/ Tick

SpecSnapshot == Init /\ [][NextSnapshot]_vars

(***************************************************************************)
(* The engine's calls one step at a time: an operation assigns its fields  *)
(* and then calls its collaborators in the order of its code; each of      *)
(* these calls is a step, and what a collaborator calls back is part of    *)
(* its step.  The browser starts a handler only when no call is executing. *)
(***************************************************************************)
\* the most operations that change the table in a run of single steps
MaxCalls == 2

\* the collaborator calls an operation makes after it has assigned its fields
CollaboratorCalls(op) ==
  CASE op = "commit" ->
         <<"displayMessage", "setValue", "setValueReturn", "updatePreviousContent",
           "render", "updateVersionInfo", "saveHistory", "saveUserPreferences">>
    [] op = "createBranch" ->
         <<"setValue", "setValueReturn", "updatePreviousContent", "render",
           "updateVersionInfo", "saveHistory", "saveUserPreferences", "displayMessage">>
    [] OTHER ->
         <<"setValue", "setValueReturn", "updatePreviousContent", "render",
           "updateVersionInfo", "saveUserPreferences">>

\* an executing operation: its name, the calls it has still to make, and
\* the local oldFlag of the setValue it is in
Frame(op) == [op |-> op, rest |-> CollaboratorCalls(op), oldFlag |-> FALSE]

\* the operation has passed its tests and assigned the engine's fields
StartCall(op, e) ==
  /\ _branches' = e.branches
  /\ _currentBranchId' = e.branchId
  /\ _currentTransactionIndex' = e.index
  /\ callStack' = <<Frame(op)>> \o callStack

\* the innermost executing operation is about to make the call named
Calls(name) ==
  /\ callStack # <<>>
  /\ Head(callStack).rest # <<>>
  /\ Head(Head(callStack).rest) = name

\* the call has returned to the innermost operation
Returned(frame) ==
  callStack' = <<[frame EXCEPT !.rest = Tail(@)]>> \o Tail(callStack)

\* EditorManager._handleInput (a mutant: the programmatic flag is not tested)
_handleInputUnguarded(isProgrammaticChange, currentContent, lastContent) ==
  IF currentContent = lastContent THEN <<>>
  ELSE IF Len(currentContent) = Len(lastContent) + 1
       THEN <<<<Num(Len(currentContent) - 1),
                Str(SubSeq(currentContent, Len(currentContent), Len(currentContent)))>>>>
       ELSE <<>>

\* EditorManager._handleInput with the cursor at the end of the text: the
\* recordCharacterTyped calls it makes, as their opArrays
_handleInput(isProgrammaticChange, currentContent, lastContent) ==
  IF isProgrammaticChange THEN <<>>
  ELSE IF currentContent = lastContent THEN <<>>
  ELSE IF Len(currentContent) = Len(lastContent) + 1
       THEN <<<<Num(Len(currentContent) - 1),
                Str(SubSeq(currentContent, Len(currentContent), Len(currentContent)))>>>>
       ELSE <<>>

\* the coordinates timelineManager.render asks getStateInfoAt about
RenderedCoordinates(e) ==
  UNION {{<<branchId, i>> : i \in -1..(Len(e.branches[branchId].transactions) - 1)} :
         branchId \in DOMAIN e.branches}

\* the engine after getStateInfoAt has been called for each of the coordinates
RECURSIVE AfterQueries(_, _, _)
AfterQueries(e, coordinates, t) ==
  IF coordinates = {} THEN e
  ELSE LET c == CHOOSE c \in coordinates : TRUE
       IN AfterQueries(getStateInfoAt(e, c[1], c[2], t).engine, coordinates \ {c}, t)

\* the opArrays the editor's handlers pass to the record* calls
CommitInputs ==
  {<<Num(typed[1]), Str(typed[2])>> : typed \in TypedInputs}
    \cup {<<Num(index)>> : index \in DeletedIndices}

\* a record* call begins: _commitOperation has changed the table and the pointer
BeginCommitStep ==
  /\ callStack = <<>> /\ started /\ changes < MaxCalls
  /\ \E opArray \in CommitInputs : \E rnd \in RandomTokens :
       StartCall("commit", _commitOperation(This, opArray, _generateId(now, rnd)))
  /\ changes' = changes + 1
  /\ UNCHANGED <<editor, localStorage, now, started, ticks, _isProgrammaticChange,
                 snapshotVars, instanceVars, timelineVars, slotVars>>

\* createBranch(branchName) begins; a refused name returns at once
BeginCreateBranchStep ==
  /\ callStack = <<>> /\ started /\ changes < MaxCalls
  /\ \E branchName \in BranchNameInputs :
       LET r == createBranch(This, branchName)
       IN IF r.ret = "true"
          THEN StartCall("createBranch", r.engine) /\ changes' = changes + 1
          ELSE UNCHANGED <<_branches, _currentBranchId, _currentTransactionIndex,
                           callStack, changes>>
  /\ UNCHANGED <<editor, localStorage, now, started, ticks, _isProgrammaticChange,
                 snapshotVars, instanceVars, timelineVars, slotVars>>

\* a navigation call begins if it moves the pointer; otherwise it returns at once
BeginNavigation(op, r) ==
  /\ callStack = <<>> /\ started
  /\ IF r.ret = "true"
     THEN StartCall(op, r.engine)
     ELSE UNCHANGED <<_branches, _currentBranchId, _currentTransactionIndex, callStack>>
  /\ UNCHANGED <<editor, localStorage, now, started, changes, ticks,
                 _isProgrammaticChange, snapshotVars, instanceVars, timelineVars, slotVars>>

BeginSwitchToVersionStep ==
  \E branchId \in DOMAIN _branches \cup {UnknownBranchId} :
    \E transactionIndex \in SwitchIndexInputs(branchId) :
      BeginNavigation("switchToVersion", switchToVersion(This, branchId, transactionIndex))

BeginUndoStep == BeginNavigation("undo", undo(This))

BeginRedoStep == BeginNavigation("redo", redo(This))

\* uiManager.displayMessage: the message is logged
DisplayMessageStep ==
  /\ Calls("displayMessage")
  /\ Returned(Head(callStack))
  /\ UNCHANGED <<_branches, _currentBranchId, _currentTransactionIndex, editor,
                 localStorage, now, started, changes, ticks, _isProgrammaticChange,
                 snapshotVars, instanceVars, timelineVars, slotVars>>

\* editorManager.setValue(currentText, true) up to the assignment of the
\* textarea's value
SetValueStep ==
  /\ Calls("setValue")
  /\ Returned([Head(callStack) EXCEPT !.oldFlag = _isProgrammaticChange])
  /\ _isProgrammaticChange' = TRUE
  /\ editor' = [editor EXCEPT
                  !.value = _reconstructText(_branches, _currentBranchId,
                                             _currentTransactionIndex)]
  /\ UNCHANGED <<_branches, _currentBranchId, _currentTransactionIndex, localStorage,
                 now, started, changes, ticks, snapshotVars, instanceVars, timelineVars, slotVars>>

\* an input event is dispatched to the textarea while setValue is executing:
\* _handleInput runs, and a recordCharacterTyped it calls begins inside the
\* operation that called setValue
InputListenerStep ==
  /\ Calls("setValueReturn")
  /\ LET typed == _handleInput(_isProgrammaticChange, editor.value,
                               editor._previousContent)
     IN IF typed # <<>>
        THEN \E rnd \in RandomTokens :
               StartCall("commit",
                         _commitOperation(This, typed[1], _generateId(now, rnd)))
        ELSE UNCHANGED <<_branches, _currentBranchId, _currentTransactionIndex,
                         callStack>>
  /\ UNCHANGED <<editor, localStorage, now, started, changes, ticks,
                 _isProgrammaticChange, snapshotVars, instanceVars, timelineVars, slotVars>>

\* the rest of setValue: _previousContent is assigned and the flag restored
SetValueReturnStep ==
  /\ Calls("setValueReturn")
  /\ Returned(Head(callStack))
  /\ editor' = [editor EXCEPT !._previousContent = editor.value]
  /\ _isProgrammaticChange' = Head(callStack).oldFlag
  /\ UNCHANGED <<_branches, _currentBranchId, _currentTransactionIndex, localStorage,
                 now, started, changes, ticks, snapshotVars, instanceVars, timelineVars, slotVars>>

\* editorManager.updatePreviousContent(currentText)
UpdatePreviousContentStep ==
  /\ Calls("updatePreviousContent")
  /\ Returned(Head(callStack))
  /\ editor' = [editor EXCEPT
                  !._previousContent = _reconstructText(_branches, _currentBranchId,
                                                        _currentTransactionIndex)]
  /\ UNCHANGED <<_branches, _currentBranchId, _currentTransactionIndex, localStorage,
                 now, started, changes, ticks, _isProgrammaticChange, snapshotVars,
                 instanceVars, timelineVars, slotVars>>

\* the engine's fields after a collaborator has put its questions to it
Queried(e) ==
  /\ _branches' = e.branches
  /\ _currentBranchId' = e.branchId
  /\ _currentTransactionIndex' = e.index

\* timelineManager.render(): getAllBranchesData, then getStateInfoAt for the
\* start and every transaction of every branch
RenderStep ==
  /\ Calls("render")
  /\ Returned(Head(callStack))
  /\ Queried(AfterQueries(This, RenderedCoordinates(This), now))
  /\ UNCHANGED <<editor, localStorage, now, started, changes, ticks,
                 _isProgrammaticChange, snapshotVars, instanceVars, timelineVars, slotVars>>

\* uiManager.updateVersionInfo(): the current state is asked for
UpdateVersionInfoStep ==
  /\ Calls("updateVersionInfo")
  /\ Returned(Head(callStack))
  /\ Queried(getCurrentStateInfo(This, now).engine)
  /\ UNCHANGED <<editor, localStorage, now, started, changes, ticks,
                 _isProgrammaticChange, snapshotVars, instanceVars, timelineVars, slotVars>>

\* storageManager.saveHistory(this._branches)
SaveHistoryStep ==
  /\ Calls("saveHistory")
  /\ Returned(Head(callStack))
  /\ localStorage' = _saveHistory(This, localStorage)
  /\ UNCHANGED <<_branches, _currentBranchId, _currentTransactionIndex, editor, now,
                 started, changes, ticks, _isProgrammaticChange, snapshotVars,
                 instanceVars, timelineVars, slotVars>>

\* storageManager.saveUserPreferences({currentBranchId, currentTransactionIndex})
SaveUserPreferencesStep ==
  /\ Calls("saveUserPreferences")
  /\ Returned(Head(callStack))
  /\ localStorage' = _saveUserPreferences(This, localStorage)
  /\ UNCHANGED <<_branches, _currentBranchId, _currentTransactionIndex, editor, now,
                 started, changes, ticks, _isProgrammaticChange, snapshotVars,
                 instanceVars, timelineVars, slotVars>>

\* the innermost operation has made its calls and returns
ReturnStep ==
  /\ callStack # <<>>
  /\ Head(callStack).rest = <<>>
  /\ callStack' = Tail(callStack)
  /\ UNCHANGED <<_branches, _currentBranchId, _currentTransactionIndex, editor,
                 localStorage, now, started, changes, ticks, _isProgrammaticChange,
                 snapshotVars, instanceVars, timelineVars, slotVars>>

NextCalls ==
  \/ InitStep
  \/ BeginCommitStep
  \/ BeginCreateBranchStep
  \/ BeginSwitchToVersionStep
  \/ BeginUndoStep
  \/ BeginRedoStep
  \/ DisplayMessageStep
  \/ SetValueStep
  \/ InputListenerStep
  \/ SetValueReturnStep
  \/ UpdatePreviousContentStep
  \/ RenderStep
  \/ UpdateVersionInfoStep
  \/ SaveHistoryStep
  \/ SaveUserPreferencesStep
  \/ ReturnStep

SpecCalls == Init /\ [][NextCalls]_vars

(***************************************************************************)
(* Two engines in one page.  this._branches is a reference to a table      *)
(* object: the operations write into that object, and loadAllBranchesData  *)
(* makes this._branches refer to the object it is handed.                  *)
(***************************************************************************)
\* the engine of instance i: the table its _branches refers to, and its pointer
InstanceEngine(i) ==
  Engine(heap[instances[i]._branches], instances[i].branchId, instances[i].index)

\* a call on instance i has ended with engine e, its table being the object
\* given: the table is written into that object and the editor synced
SetInstance(i, object, e) ==
  /\ heap' = [heap EXCEPT ![object] = e.branches]
  /\ instances' = [instances EXCEPT ![i] =
                     [_branches |-> object, branchId |-> e.branchId, index |-> e.index,
                      editor |-> _updateEditorContent(e)]]

\* what is left alone by the calls on the instances
pageVars == <<_branches, _currentBranchId, _currentTransactionIndex, editor, started,
              now, ticks, snapshotVars, callVars, timelineVars, slotVars>>

\* init() of instance i with its StorageManagerV2
InstanceInitStep(i) ==
  /\ instances[i].branchId = ""
  /\ LET e == init(InstanceEngine(i), loadHistory(localStorage),
                   loadUserPreferences(localStorage))
     IN /\ SetInstance(i, instances[i]._branches, e)
        /\ localStorage' = _saveAllData(e, localStorage)
  /\ UNCHANGED <<changes, pageVars>>

\* instance i is handed a table object of the page: the data object, or what
\* getAllBranchesData() of an instance returns
InstanceLoadAllBranchesDataStep(i) ==
  /\ instances[i].branchId # ""
  /\ \E object \in DOMAIN heap :
       LET e == loadAllBranchesData(InstanceEngine(i), JsObject(heap[object])).engine
       IN /\ SetInstance(i, object, e)
          /\ localStorage' = _saveAllData(e, localStorage)
  /\ UNCHANGED <<changes, pageVars>>

\* a record* call on instance i
InstanceCommitStep(i) ==
  /\ instances[i].branchId # "" /\ changes < MaxLoads
  /\ \E opArray \in CommitInputs : \E rnd \in RandomTokens :
       LET e == _commitOperation(InstanceEngine(i), opArray, _generateId(now, rnd))
       IN /\ SetInstance(i, instances[i]._branches, e)
          /\ localStorage' = _saveAllData(e, localStorage)
  /\ changes' = changes + 1
  /\ UNCHANGED pageVars

\* createBranch(branchName) on instance i
InstanceCreateBranchStep(i) ==
  /\ instances[i].branchId # "" /\ changes < MaxLoads
  /\ \E branchName \in BranchNameInputs :
       LET r == createBranch(InstanceEngine(i), branchName)
       IN IF r.ret = "true"
          THEN /\ SetInstance(i, instances[i]._branches, r.engine)
               /\ localStorage' = _saveAllData(r.engine, localStorage)
               /\ changes' = changes + 1
          ELSE UNCHANGED <<heap, instances, localStorage, changes>>
  /\ UNCHANGED pageVars

\* a navigation call on instance i
InstanceNavigate(i, r) ==
  /\ instances[i].branchId # ""
  /\ IF r.ret = "true"
     THEN /\ SetInstance(i, instances[i]._branches, r.engine)
          /\ localStorage' = _saveUserPreferences(r.engine, localStorage)
     ELSE UNCHANGED <<heap, instances, localStorage>>
  /\ UNCHANGED <<changes, pageVars>>

InstanceSwitchToVersionStep(i) ==
  \E branchId \in DOMAIN InstanceEngine(i).branches \cup {UnknownBranchId} :
    \E transactionIndex \in
         -2..(IF branchId \in DOMAIN InstanceEngine(i).branches
              THEN Len(InstanceEngine(i).branches[branchId].transactions) ELSE 0) :
      InstanceNavigate(i, switchToVersion(InstanceEngine(i), branchId, transactionIndex))

InstanceUndoStep(i) == InstanceNavigate(i, undo(InstanceEngine(i)))

InstanceRedoStep(i) == InstanceNavigate(i, redo(InstanceEngine(i)))

\* commit, createBranch, undo, redo or switchToVersion is called on instance i
InstanceOperation(i) ==
  \/ InstanceCommitStep(i)
  \/ InstanceCreateBranchStep(i)
  \/ InstanceUndoStep(i)
  \/ InstanceRedoStep(i)
  \/ InstanceSwitchToVersionStep(i)

NextInstances ==
  \/ \E i \in Instances : InstanceInitStep(i)
  \/ \E i \in Instances : InstanceLoadAllBranchesDataStep(i)
  \/ \E i \in Instances : InstanceCommitStep(i)
  \/ \E i \in Instances : InstanceCreateBranchStep(i)
  \/ \E i \in Instances : InstanceSwitchToVersionStep(i)
  \/ \E i \in Instances : InstanceUndoStep(i)
  \/ \E i \in Instances : InstanceRedoStep(i)

SpecInstances == Init /\ [][NextInstances]_vars

(***************************************************************************)
(* Longer runs of typing and navigation: the character "a" is typed at the *)
(* start of the text, from any state the timeline leads to.                *)
(***************************************************************************)
\* the most commits of such a run
MaxForkChanges == 4

ForkTypedStep ==
  /\ started /\ changes < MaxForkChanges
  /\ recordCharacterTyped(0, "a")

NextForks ==
  \/ InitStep
  \/ ForkTypedStep
  \/ SwitchToVersionStep
  \/ Tick

SpecForks == Init /\ [][NextForks]_vars

(***************************************************************************)
(* The editor's events: the browser changes the textarea (a typed          *)
(* character, a paste, a character typed over a selection) and dispatches  *)
(* the input event; Backspace is handled at keydown.                       *)
(***************************************************************************)
\* the longest text the textarea holds
MaxEditorLength == 3

\* the texts pasted
PastedTexts == {"ab"}

\* str with text put in at position p
InsertAt(str, p, text) == SubSeq(str, 1, p) \o text \o SubSeq(str, p + 1, Len(str))

\* str without the character at index p
RemoveAt(str, p) == SubSeq(str, 1, p) \o SubSeq(str, p + 2, Len(str))

\* EditorManager._handleInput with the cursor at cursorPosition: the
\* recordCharacterTyped calls it makes, as their opArrays
_handleInputAt(isProgrammaticChange, currentContent, lastContent, cursorPosition) ==
  IF isProgrammaticChange THEN <<>>
  ELSE IF currentContent = lastContent THEN <<>>
  ELSE IF Len(currentContent) = Len(lastContent) + 1 /\ cursorPosition >= 1
       THEN <<<<Num(cursorPosition - 1),
                Str(SubSeq(currentContent, cursorPosition, cursorPosition))>>>>
       ELSE <<>>

\* the input event after the browser has made the textarea hold
\* currentContent, the cursor being at cursorPosition
InputEvent(currentContent, cursorPosition) ==
  LET typed == _handleInputAt(_isProgrammaticChange, currentContent,
                              editor._previousContent, cursorPosition)
  IN IF typed # <<>>
     THEN Commit(typed[1])
     ELSE /\ editor' = [editor EXCEPT !.value = currentContent]
          /\ UNCHANGED <<_branches, _currentBranchId, _currentTransactionIndex,
                         localStorage, now, started, changes, ticks, snapshotVars,
                         callVars, instanceVars, timelineVars, slotVars>>

\* a character is typed at position p
EditorTypedStep ==
  /\ started /\ changes < MaxChanges /\ Len(editor.value) < MaxEditorLength
  /\ \E p \in 0..Len(editor.value), char \in TypedCharacters :
       InputEvent(InsertAt(editor.value, p, char), p + 1)

\* a text is pasted at position p
EditorPasteStep ==
  /\ started
  /\ \E p \in 0..Len(editor.value), text \in PastedTexts :
       /\ Len(editor.value) + Len(text) <= MaxEditorLength
       /\ InputEvent(InsertAt(editor.value, p, text), p + Len(text))

\* a character is typed over the selected character at index p
EditorReplaceStep ==
  /\ started
  /\ \E p \in 0..(Len(editor.value) - 1), char \in TypedCharacters :
       InputEvent(InsertAt(RemoveAt(editor.value, p), p, char), p + 1)

\* Backspace with the cursor at p > 0: _handleKeyDown prevents the default
\* and _handleDeletion removes the character before the cursor
EditorBackspaceStep ==
  /\ started /\ changes < MaxChanges
  /\ ~_isProgrammaticChange
  /\ \E p \in 1..Len(editor.value) : recordCharacterDeletion(p - 1)

NextEditor ==
  \/ InitStep
  \/ EditorTypedStep
  \/ EditorPasteStep
  \/ EditorReplaceStep
  \/ EditorBackspaceStep
  \/ UndoStep
  \/ RedoStep

SpecEditor == Init /\ [][NextEditor]_vars

(***************************************************************************)
(* The page of v2/app.js: the storage manager is null, so init() throws at *)
(* loadHistory() before it has assigned anything, the saves return at      *)
(* once, and the editor's handlers call the engine as it was constructed.  *)
(***************************************************************************)
\* the most commits made on such a page
MaxEarlyChanges == 2

\* a record* call with no storage manager: _commitOperation, then the
\* editor is synced
CommitWithoutStorage(opArray) ==
  \E rnd \in RandomTokens :
    LET e == _commitOperation(This, opArray, _generateId(now, rnd))
    IN /\ SetEngine(e)
       /\ editor' = _updateEditorContent(e)
       /\ changes' = changes + 1
       /\ UNCHANGED <<localStorage, now, started, ticks>>

\* a navigation call with no storage manager
NavigateWithoutStorage(r) ==
  /\ SetEngine(r.engine)
  /\ IF r.ret = "true" /\ r.engine # This
     THEN editor' = _updateEditorContent(r.engine)
     ELSE UNCHANGED editor
  /\ UNCHANGED <<localStorage, now, started, changes, ticks>>

EarlyCommitStep ==
  /\ ~started /\ changes < MaxEarlyChanges
  /\ \E opArray \in CommitInputs : CommitWithoutStorage(opArray)

EarlySwitchToVersionStep ==
  /\ ~started
  /\ \E branchId \in DOMAIN _branches \cup {UnknownBranchId} :
       \E transactionIndex \in SwitchIndexInputs(branchId) :
         NavigateWithoutStorage(switchToVersion(This, branchId, transactionIndex))

EarlyUndoStep == ~started /\ NavigateWithoutStorage(undo(This))

EarlyRedoStep == ~started /\ NavigateWithoutStorage(redo(This))

NextEarly ==
  \/ EarlyCommitStep
  \/ EarlySwitchToVersionStep
  \/ EarlyUndoStep
  \/ EarlyRedoStep
  \/ Tick

SpecEarly == Init /\ [][NextEarly]_vars

(***************************************************************************)
(* The timeline's drag: a mousedown on a rendered node, mousemove and       *)
(* mouseup events anywhere on the page, interleaved with typing, undo and   *)
(* redo.  Each handler runs to its end, the switchToVersion call included.  *)
(***************************************************************************)
\* TimelineManager.CONSTANTS.NODE_SPACING
NODE_SPACING == 20
\* the clientX of the mouse events
ClientXs == {0, 30, 60}

\* dragTarget = null
NoDragTarget ==
  [branchId |-> null, currentBranchDraggableIndices |-> <<>>,
   currentDragStartIndexOnList |-> 0, currentDragListIndex |-> 0, startX |-> 0]

\* [-1, ...branchData.transactions.map((_, i) => i)]
DraggableIndices(branchData) ==
  [i \in 1..(Len(branchData.transactions) + 1) |-> i - 2]

\* Array.prototype.indexOf, counted from 0, -1 when absent
IndexOf(array, value) ==
  IF \E i \in DOMAIN array : array[i] = value
  THEN (CHOOSE i \in DOMAIN array :
          array[i] = value /\ \A j \in 1..(i - 1) : array[j] # value) - 1
  ELSE -1

\* a call of versionControl.switchToVersion, or none
NoSwitchCall == [issued |-> FALSE, branchId |-> "", transactionIndex |-> 0]
SwitchCall(branchId, transactionIndex) ==
  [issued |-> TRUE, branchId |-> branchId, transactionIndex |-> transactionIndex]

\* _handleNodeMouseDown(event, branchId, transactionIndex, nodeElement): the
\* drag state it leaves
handleNodeMouseDown(table, dragging, target, branchId, transactionIndex, clientX) ==
  IF branchId \notin DOMAIN table
  THEN [isDragging |-> FALSE, dragTarget |-> target, call |-> NoSwitchCall]
  ELSE LET draggableIndices == DraggableIndices(table[branchId])
           currentDragStartIndexOnList == IndexOf(draggableIndices, transactionIndex)
       IN [isDragging |-> TRUE,
           dragTarget |-> [branchId |-> branchId,
                           currentBranchDraggableIndices |-> draggableIndices,
                           currentDragStartIndexOnList |-> currentDragStartIndexOnList,
                           currentDragListIndex |-> currentDragStartIndexOnList,
                           startX |-> clientX],
           call |-> NoSwitchCall]

\* handleDragMove(event): the drag state it leaves and the call it issues
handleDragMove(dragging, target, clientX) ==
  IF ~dragging \/ target = NoDragTarget
  THEN [isDragging |-> dragging, dragTarget |-> target, call |-> NoSwitchCall]
  ELSE LET deltaX == clientX - target.startX
           versionDelta == deltaX \div NODE_SPACING
           draggableIndices == target.currentBranchDraggableIndices
           newDragListIndex ==
             Max(0, Min(Len(draggableIndices) - 1,
                        target.currentDragStartIndexOnList + versionDelta))
       IN IF Len(draggableIndices) = 0 \/ newDragListIndex = target.currentDragListIndex
          THEN [isDragging |-> dragging, dragTarget |-> target, call |-> NoSwitchCall]
          ELSE [isDragging |-> dragging,
                dragTarget |-> [target EXCEPT !.currentDragListIndex = newDragListIndex],
                call |-> SwitchCall(target.branchId,
                                    draggableIndices[newDragListIndex + 1])]

\* handleDragEnd(event): the drag state it leaves and the call it issues
handleDragEnd(dragging, target) ==
  IF ~dragging
  THEN [isDragging |-> dragging, dragTarget |-> target, call |-> NoSwitchCall]
  ELSE [isDragging |-> FALSE, dragTarget |-> NoDragTarget,
        call |-> IF /\ target # NoDragTarget
                    /\ target.currentDragListIndex + 1
                         \in DOMAIN target.currentBranchDraggableIndices
                 THEN SwitchCall(target.branchId,
                                 target.currentBranchDraggableIndices[
                                   target.currentDragListIndex + 1])
                 ELSE NoSwitchCall]

\* a handler of the timeline has run: its drag state is assigned and the
\* call it issued, if any, has been made
DragHandled(r) ==
  /\ isDragging' = r.isDragging
  /\ dragTarget' = r.dragTarget
  /\ LET s == IF r.call.issued
              THEN switchToVersion(This, r.call.branchId, r.call.transactionIndex)
              ELSE Returns(This, "false")
     IN /\ _branches' = s.engine.branches
        /\ _currentBranchId' = s.engine.branchId
        /\ _currentTransactionIndex' = s.engine.index
        /\ IF s.ret = "true" /\ s.engine # This
           THEN /\ editor' = _updateEditorContent(s.engine)
                /\ localStorage' = _saveUserPreferences(s.engine, localStorage)
           ELSE UNCHANGED <<editor, localStorage>>
  /\ UNCHANGED <<now, started, changes, ticks, snapshotVars, callVars, instanceVars,
                 slotVars>>

\* a mousedown on a node the timeline has rendered
NodeMouseDownStep ==
  /\ started
  /\ \E branchId \in DOMAIN _branches :
       \E transactionIndex \in -1..(Len(_branches[branchId].transactions) - 1) :
         \E clientX \in ClientXs :
           DragHandled(handleNodeMouseDown(_branches, isDragging, dragTarget,
                                           branchId, transactionIndex, clientX))

DragMoveStep ==
  /\ started
  /\ \E clientX \in ClientXs : DragHandled(handleDragMove(isDragging, dragTarget, clientX))

DragEndStep == started /\ DragHandled(handleDragEnd(isDragging, dragTarget))

NextDrag ==
  \/ InitStep
  \/ ForkTypedStep
  \/ UndoStep
  \/ RedoStep
  \/ NodeMouseDownStep
  \/ DragMoveStep
  \/ DragEndStep

SpecDrag == Init /\ [][NextDrag]_vars

(***************************************************************************)
(* The character-slot engine: VersionControlV2 with VersionContentStore.   *)
(* A version holds sparseContent, one history per character slot; a slot's  *)
(* character is the last entry of its history, null when deleted.  The ids  *)
(* _generateId returns keep their random part and are taken as distinct:    *)
(* the n-th id generated is n.  The saves do not touch the engine's fields  *)
(* and are left out.                                                       *)
(***************************************************************************)
\* the most versions the engine commits
MaxSlotVersions == 3
\* the characters typed
SlotCharacters == {"a", "b"}

\* VersionContentStore.typeChar(index, char) on a copy of sparseContent
typeChar(sparseContent, index, char) ==
  IF index < 0 \/ index > Len(sparseContent)
  THEN sparseContent
  ELSE IF index = Len(sparseContent)
       THEN Append(sparseContent, <<char>>)
       ELSE [sparseContent EXCEPT ![index + 1] = Append(@, char)]

\* VersionContentStore.deleteChar(index) on a copy of sparseContent
deleteChar(sparseContent, index) ==
  IF index < 0 \/ index >= Len(sparseContent)
  THEN sparseContent
  ELSE LET charHistory == sparseContent[index + 1]
       IN IF Len(charHistory) > 0 /\ charHistory[Len(charHistory)] # null
          THEN [sparseContent EXCEPT ![index + 1] = Append(@, null)]
          ELSE sparseContent

\* VersionContentStore.getCurrentText()
RECURSIVE getCurrentText(_)
getCurrentText(sparseContent) ==
  IF sparseContent = <<>> THEN ""
  ELSE LET charHistory == sparseContent[Len(sparseContent)]
           rest == getCurrentText(SubSeq(sparseContent, 1, Len(sparseContent) - 1))
       IN IF Len(charHistory) > 0 /\ charHistory[Len(charHistory)] # null
          THEN rest \o charHistory[Len(charHistory)]
          ELSE rest

\* VersionContentStore.sparseContentFromText(text)
sparseContentFromText(str) == [i \in 1..Len(str) |-> <<SubSeq(str, i, i)>>]

\* the fields of a VersionControlV2
SlotEngine(branches, branchId, versionId, generated) ==
  [branches |-> branches, branchId |-> branchId, versionId |-> versionId,
   generated |-> generated]

ThisSlotEngine ==
  SlotEngine(v2_branches, v2_currentBranchId, v2_currentVersionId, v2_generated)

\* the positions of the versions of branchId whose id is versionId
VersionPositions(e, branchId, versionId) ==
  IF branchId \in DOMAIN e.branches
  THEN {i \in DOMAIN e.branches[branchId].versions :
          e.branches[branchId].versions[i].id = versionId}
  ELSE {}

\* getCurrentVersion(): the version found, as a sequence of at most one
getCurrentVersion(e) ==
  LET found == VersionPositions(e, e.branchId, e.versionId)
  IN IF found = {} THEN <<>>
     ELSE <<e.branches[e.branchId].versions[CHOOSE i \in found : \A j \in found : i <= j]>>

\* the text of the current version, "" when there is none
SlotText(e) ==
  IF getCurrentVersion(e) = <<>> THEN ""
  ELSE getCurrentText(getCurrentVersion(e)[1].sparseContent)

\* _createDefaultMainBranch()
_createDefaultMainBranch(e) ==
  SlotEngine(Put(e.branches, DEFAULT_BRANCH_ID,
                 [versions |-> <<[id |-> e.generated + 1, sparseContent |-> <<>>,
                                  type |-> OP_TYPE_INITIAL]>>,
                  parent |-> <<>>]),
             DEFAULT_BRANCH_ID, e.generated + 1, e.generated + 1)

\* _commitVersion(type, sparseContent, message, newBranchParentInfo), the
\* pointer's branch existing; newBranchParentInfo is <<>> for null
_commitVersion(e, type, sparseContent, newBranchParentInfo) ==
  LET newBranchName == "branch-id-" \o ToString(Cardinality(DOMAIN e.branches))
      forked == IF newBranchParentInfo # <<>>
                THEN SlotEngine(Put(e.branches, newBranchName,
                                    [versions |-> <<>>, parent |-> newBranchParentInfo]),
                                newBranchName, e.versionId, e.generated)
                ELSE e
      newVersionId == e.generated + 1
      newVersion == [id |-> newVersionId, sparseContent |-> sparseContent, type |-> type]
  IN SlotEngine([forked.branches EXCEPT ![forked.branchId].versions = Append(@, newVersion)],
                forked.branchId, newVersionId, newVersionId)

\* what recordCharacterTyped and recordCharacterDeletion share: the content
\* the edit starts from and the parent of the branch to create, if any
EditBase(e) ==
  LET currentVersionObject == getCurrentVersion(e)[1]
      currentBranchVersions == e.branches[e.branchId].versions
      isAtTip == \/ Len(currentBranchVersions) = 0
                 \/ currentBranchVersions[Len(currentBranchVersions)].id = e.versionId
  IN IF ~isAtTip
     THEN [baseSparseContent
             |-> sparseContentFromText(getCurrentText(currentVersionObject.sparseContent)),
           newBranchParentInfo |-> <<[branchId |-> e.branchId, versionId |-> e.versionId]>>]
     ELSE [baseSparseContent |-> currentVersionObject.sparseContent,
           newBranchParentInfo |-> <<>>]

\* VersionControlV2.recordCharacterTyped(index, char)
recordCharacterTypedV2(e, index, char) ==
  IF getCurrentVersion(e) = <<>> THEN e
  ELSE _commitVersion(e, "charTyped",
                      typeChar(EditBase(e).baseSparseContent, index, char),
                      EditBase(e).newBranchParentInfo)

\* VersionControlV2.recordCharacterDeletion(index)
recordCharacterDeletionV2(e, index) ==
  IF getCurrentVersion(e) = <<>> THEN e
  ELSE _commitVersion(e, "charDeleted",
                      deleteChar(EditBase(e).baseSparseContent, index),
                      EditBase(e).newBranchParentInfo)

\* VersionControlV2.undo()
undoV2(e) ==
  LET found == VersionPositions(e, e.branchId, e.versionId)
  IN IF e.branchId \notin DOMAIN e.branches \/ found = {}
     THEN e
     ELSE LET currentIndex == CHOOSE i \in found : \A j \in found : i <= j
          IN IF Len(e.branches[e.branchId].versions) <= 1 \/ currentIndex <= 1
             THEN e
             ELSE [e EXCEPT !.versionId = e.branches[e.branchId].versions[currentIndex - 1].id]

\* VersionControlV2.redo()
redoV2(e) ==
  LET found == VersionPositions(e, e.branchId, e.versionId)
  IN IF e.branchId \notin DOMAIN e.branches \/ found = {}
     THEN e
     ELSE LET currentIndex == CHOOSE i \in found : \A j \in found : i <= j
          IN IF currentIndex >= Len(e.branches[e.branchId].versions)
             THEN e
             ELSE [e EXCEPT !.versionId = e.branches[e.branchId].versions[currentIndex + 1].id]

\* the engine's fields are assigned; nothing else of the page changes
SetSlotEngine(e) ==
  /\ v2_branches' = e.branches
  /\ v2_currentBranchId' = e.branchId
  /\ v2_currentVersionId' = e.versionId
  /\ v2_generated' = e.generated
  /\ UNCHANGED <<_branches, _currentBranchId, _currentTransactionIndex, editor,
                 localStorage, now, started, changes, ticks, snapshotVars, callVars,
                 instanceVars, timelineVars>>

\* init() with nothing stored
SlotInitStep ==
  /\ v2_generated = 0
  /\ SetSlotEngine(_createDefaultMainBranch(ThisSlotEngine))

\* a character typed at a position of the visible text
SlotTypedStep ==
  /\ 0 < v2_generated /\ v2_generated <= MaxSlotVersions
  /\ \E index \in 0..Len(SlotText(ThisSlotEngine)) : \E char \in SlotCharacters :
       SetSlotEngine(recordCharacterTypedV2(ThisSlotEngine, index, char))

\* a character of the visible text deleted
SlotDeletionStep ==
  /\ 0 < v2_generated /\ v2_generated <= MaxSlotVersions
  /\ \E index \in 0..(Len(SlotText(ThisSlotEngine)) - 1) :
       SetSlotEngine(recordCharacterDeletionV2(ThisSlotEngine, index))

SlotUndoStep == 0 < v2_generated /\ SetSlotEngine(undoV2(ThisSlotEngine))

SlotRedoStep == 0 < v2_generated /\ SetSlotEngine(redoV2(ThisSlotEngine))

NextSlots ==
  \/ SlotInitStep
  \/ SlotTypedStep
  \/ SlotDeletionStep
  \/ SlotUndoStep
  \/ SlotRedoStep

SpecSlots == Init /\ [][NextSlots]_vars

(***************************************************************************)
(* Vocabulary of the properties.                                           *)
(***************************************************************************)
\* the operation arrays the record* calls of Next commit
OpArrays ==
  {<<Num(typed[1]), Str(typed[2])>> : typed \in TypedInputs}
    \cup {<<Num(index)>> : index \in DeletedIndices}
    \cup {<<Num(range[1]), Num(range[2])>> : range \in DeletedRanges}

\* the indices of the valid coordinates of a branch: -1 .. len - 1
ValidIndices(branches, branchId) == -1..(Len(branches[branchId].transactions) - 1)

ValidCoordinate(branches, branchId, index) ==
  /\ branchId \in DOMAIN branches
  /\ index \in ValidIndices(branches, branchId)

\* the pointer is at the tip of its branch
AtTip == _currentTransactionIndex = Len(_branches[_currentBranchId].transactions) - 1

\* the text the pointer shows
VisibleText == _reconstructText(_branches, _currentBranchId, _currentTransactionIndex)

\* the branch ids made by a fork
IsAutomatic(branchId) == branchId \notin {"main", "feature"}

IsPrefix(s, t) == Len(s) <= Len(t) /\ SubSeq(t, 1, Len(s)) = s

(***************************************************************************)
(* C1. Pointer validity: from init() on, through every commit, undo, redo, *)
(* switchToVersion and createBranch, _currentBranchId names a branch of    *)
(* the table and -1 <= _currentTransactionIndex <= len(transactions) - 1.  *)
(***************************************************************************)
C1_PointerValid ==
  started => ValidCoordinate(_branches, _currentBranchId, _currentTransactionIndex)

\* the pointer back at the origin of a forked branch that holds transactions,
\* after three table changes
C1_Witness ==
  /\ started
  /\ changes = MaxChanges
  /\ IsAutomatic(_currentBranchId)
  /\ _currentTransactionIndex = -1
  /\ Len(_branches[_currentBranchId].transactions) > 0

(***************************************************************************)
(* C2. History preservation: a valid coordinate (b, i) stays valid and     *)
(* keeps its reconstructed text through every later call.  Stated step by  *)
(* step: no step removes a branch, invalidates one of its coordinates or   *)
(* changes the text a coordinate reconstructs to.                          *)
(***************************************************************************)
C2_HistoryPreserved ==
  [][\A b \in DOMAIN _branches :
       \A i \in ValidIndices(_branches, b) :
         /\ ValidCoordinate(_branches', b, i)
         /\ _reconstructText(_branches', b, i) = _reconstructText(_branches, b, i)]_vars

(***************************************************************************)
(* C3. Fork on divergence: a commit of op at a non-tip coordinate (b, k)   *)
(* inserts a new branch n (an id the table did not hold) whose parent is   *)
(* (b, k), whose initialContent is the text reconstructed at (b, k) before *)
(* the commit and whose transactions are [op]; the pointer becomes (n, 0). *)
(***************************************************************************)
C3_ForkOnDivergence ==
  [][\A opArray \in OpArrays :
       (started /\ ~AtTip /\ Commit(opArray)) =>
         LET n == _currentBranchId'
         IN /\ n \notin DOMAIN _branches
            /\ DOMAIN _branches' = DOMAIN _branches \cup {n}
            /\ _branches'[n].parentBranchId = _currentBranchId
            /\ _branches'[n].parentTransactionIndex = _currentTransactionIndex
            /\ _branches'[n].initialContent = VisibleText
            /\ _branches'[n].transactions = <<opArray>>
            /\ _currentTransactionIndex' = 0]_vars

(***************************************************************************)
(* C4. A fork leaves the branch it diverges from untouched: after a commit *)
(* at a non-tip coordinate of b, the record of b (initialContent,          *)
(* transactions, parent fields) is what it was.                            *)
(***************************************************************************)
C4_ForkLeavesOriginUntouched ==
  [][\A opArray \in OpArrays :
       (started /\ ~AtTip /\ Commit(opArray)) =>
         /\ _currentBranchId \in DOMAIN _branches'
         /\ _branches'[_currentBranchId] = _branches[_currentBranchId]]_vars

(***************************************************************************)
(* C5. Fresh branch ids: the id a fork generates is no key of the table,   *)
(* so a non-tip commit adds exactly one branch and overwrites none.        *)
(***************************************************************************)
C5_FreshBranchIds ==
  [][\A opArray \in OpArrays :
       (started /\ ~AtTip /\ Commit(opArray)) =>
         /\ _currentBranchId' \notin DOMAIN _branches
         /\ Cardinality(DOMAIN _branches') = Cardinality(DOMAIN _branches) + 1
         /\ \A b \in DOMAIN _branches : _branches'[b] = _branches[b]]_vars

(***************************************************************************)
(* C6. Append at tip: a commit of op at the tip of b, (b, -1) on an empty  *)
(* branch included, creates no branch, keeps the entries of                *)
(* b.transactions, appends op as the last one, sets the pointer to         *)
(* (b, new len - 1) and changes nothing else in the table.                 *)
(***************************************************************************)
C6_AppendAtTip ==
  [][\A opArray \in OpArrays :
       (started /\ AtTip /\ Commit(opArray)) =>
         LET b == _currentBranchId
         IN /\ DOMAIN _branches' = DOMAIN _branches
            /\ _branches'[b] =
                 [_branches[b] EXCEPT !.transactions = Append(@, opArray)]
            /\ \A other \in DOMAIN _branches \ {b} : _branches'[other] = _branches[other]
            /\ _currentBranchId' = b
            /\ _currentTransactionIndex' = Len(_branches'[b].transactions) - 1
            /\ _currentTransactionIndex' = _currentTransactionIndex + 1]_vars

\* main alone, holding three appended transactions, the pointer at its tip
C6_Witness ==
  /\ started
  /\ DOMAIN _branches = {"main"}
  /\ Len(_branches["main"].transactions) = MaxChanges
  /\ _currentBranchId = "main"
  /\ _currentTransactionIndex = MaxChanges - 1

(***************************************************************************)
(* A reference model of the three operations on a plain string, written    *)
(* position by position (0-based), for operations whose index lies within  *)
(* the text.                                                               *)
(***************************************************************************)
\* the characters of t from position p on, without those at index .. index+count-1
RECURSIVE RefDeleteFrom(_, _, _, _)
RefDeleteFrom(t, p, index, count) ==
  IF p >= Len(t)
  THEN ""
  ELSE (IF p >= index /\ p < index + count THEN "" ELSE SubSeq(t, p + 1, p + 1))
         \o RefDeleteFrom(t, p + 1, index, count)

RefInsert(t, index, text) == SubSeq(t, 1, index) \o text \o SubSeq(t, index + 1, Len(t))

IsInsert(opArray) == Len(opArray) = 2 /\ opArray[2].t = "string"
IsDeleteRange(opArray) == Len(opArray) = 2 /\ opArray[2].t = "number"
IsDeleteOne(opArray) == Len(opArray) = 1

\* a well-formed operation whose index is within the text t
WellFormed(opArray, t) ==
  IF IsInsert(opArray)
  THEN opArray[1].n \in 0..Len(t) /\ Len(opArray[2].s) >= 1
  ELSE IF IsDeleteRange(opArray)
  THEN opArray[1].n \in 0..(Len(t) - 1) /\ opArray[2].n >= 1
  ELSE opArray[1].n \in 0..(Len(t) - 1)

RefApply(opArray, t) ==
  IF IsInsert(opArray) THEN RefInsert(t, opArray[1].n, opArray[2].s)
  ELSE IF IsDeleteRange(opArray) THEN RefDeleteFrom(t, 0, opArray[1].n, opArray[2].n)
  ELSE RefDeleteFrom(t, 0, opArray[1].n, 1)

(***************************************************************************)
(* C7. Commit semantics on the visible text: with visible text t and a     *)
(* well-formed op whose index is within t, after commit(op) the entry at   *)
(* the new pointer is op and the text reconstructed at the new pointer is  *)
(* op applied to t, whether the commit appended or forked.                 *)
(***************************************************************************)
C7_CommitAppliesOp ==
  [][\A opArray \in OpArrays :
       \* (a commit counts as a change: the test on changes only spares the
       \* evaluation of Commit on the other steps)
       (started /\ changes' = changes + 1
          /\ WellFormed(opArray, VisibleText) /\ Commit(opArray)) =>
         /\ _currentTransactionIndex' >= 0
         /\ _branches'[_currentBranchId'].transactions[_currentTransactionIndex' + 1]
              = opArray
         /\ _reconstructText(_branches', _currentBranchId', _currentTransactionIndex')
              = RefApply(opArray, VisibleText)]_vars

\* "a", "ab" on main, back to "a", then "b" typed at 1: a fork from (main, 0)
\* showing "ab" while main keeps its two transactions
C7_Witness ==
  /\ started
  /\ IsAutomatic(_currentBranchId)
  /\ _currentTransactionIndex = 0
  /\ _branches[_currentBranchId].parentBranchId = "main"
  /\ _branches[_currentBranchId].parentTransactionIndex = 0
  /\ _branches[_currentBranchId].initialContent = "a"
  /\ _branches[_currentBranchId].transactions = <<(<<Num(1), Str("b")>>)>>
  /\ VisibleText = "ab"
  /\ Len(_branches["main"].transactions) = 2

(***************************************************************************)
(* C8. Append-only logs: across every step, for every branch b that exists *)
(* before the step, b still exists and b.transactions before the step is a *)
(* prefix of b.transactions after it.                                      *)
(***************************************************************************)
C8_AppendOnlyLogs ==
  [][\A b \in DOMAIN _branches :
       /\ b \in DOMAIN _branches'
       /\ IsPrefix(_branches[b].transactions, _branches'[b].transactions)]_vars

(***************************************************************************)
(* C9. Navigation never mutates the log: undo(), redo() and                *)
(* switchToVersion(b, i), succeeding or failing, leave the whole branch    *)
(* table as it was.                                                        *)
(***************************************************************************)
C9_NavigationKeepsTable ==
  [][(UndoStep \/ RedoStep \/ SwitchToVersionStep) => _branches' = _branches]_vars

\* back on main below its tip after createBranch had moved the pointer to
\* "feature": switchToVersion has acted, and undo or a second switch
C9_Witness ==
  /\ started
  /\ "feature" \in DOMAIN _branches
  /\ _branches["feature"].parentBranchId = "main"
  /\ _branches["feature"].parentTransactionIndex = 1
  /\ _currentBranchId = "main"
  /\ _currentTransactionIndex = 0
  /\ Len(_branches["main"].transactions) = 2

C11_UndoContract ==
  started =>
    /\ undo(This).engine.branchId = _currentBranchId
    /\ \A b \in DOMAIN _branches :
         \A i \in ValidIndices(_branches, b) :
           LET r == undo(Engine(_branches, b, i))
           IN IF i = -1
              THEN r = Returns(Engine(_branches, b, i), "false")
              ELSE r = Returns(Engine(_branches, b, i - 1), "true")

\* the pointer at the origin of a branch forked from (main, 0), the branch
\* holding a transaction that has been undone: undo() now returns false
C11_Witness ==
  /\ started
  /\ IsAutomatic(_currentBranchId)
  /\ _branches[_currentBranchId].parentBranchId = "main"
  /\ _branches[_currentBranchId].parentTransactionIndex = 0
  /\ Len(_branches[_currentBranchId].transactions) = 1
  /\ _currentTransactionIndex = -1
  /\ undo(This) = Returns(This, "false")

(***************************************************************************)
(* C12. redo(): at the tip (b, len - 1), (b, -1) on an empty branch        *)
(* included, it returns false and changes nothing; at any other valid      *)
(* (b, i) it returns true and sets the pointer to (b, i + 1).  Checked at  *)
(* the pointer and at every valid coordinate of the table.                 *)
(***************************************************************************)
C12_RedoContract ==
  started =>
    /\ redo(This).engine.branchId = _currentBranchId
    /\ \A b \in DOMAIN _branches :
         \A i \in ValidIndices(_branches, b) :
           LET r == redo(Engine(_branches, b, i))
           IN IF i = Len(_branches[b].transactions) - 1
              THEN r = Returns(Engine(_branches, b, i), "false")
              ELSE r = Returns(Engine(_branches, b, i + 1), "true")

\* main holds two transactions, "feature" was created empty from main's tip,
\* and the pointer is back at (main, 0), below the tip: redo() moves it to
\* (main, 1), and redo() at (feature, -1) returns false
C12_Witness ==
  /\ started
  /\ "feature" \in DOMAIN _branches
  /\ _branches["feature"].transactions = <<>>
  /\ _currentBranchId = "main"
  /\ Len(_branches["main"].transactions) = 2
  /\ _currentTransactionIndex = 0
  /\ redo(This) = Returns(Engine(_branches, "main", 1), "true")
  /\ redo(Engine(_branches, "feature", -1)).ret = "false"

(***************************************************************************)
(* Undo followed by redo, from the coordinate (b, i) of the current table. *)
(***************************************************************************)
\* the engine after undo() and then redo(), started at e
UndoThenRedo(e) == redo(undo(e).engine).engine

\* undo() then redo() from (b, i) ends at (b, i) with the same text and table
UndoRedoRestores(b, i) ==
  LET e == Engine(_branches, b, i)
      after == UndoThenRedo(e)
  IN /\ after.branchId = b
     /\ after.index = i
     /\ after.branches = _branches
     /\ _reconstructText(after.branches, after.branchId, after.index)
          = _reconstructText(_branches, b, i)

(***************************************************************************)
(* C13 as stated.  Undo/redo inverse: for every branch b and every valid   *)
(* index i of b, -1 included, undo() and then redo() from (b, i) returns   *)
(* the pointer to (b, i) with the same text and an unchanged table.        *)
(* Stated of the coordinate the pointer is at.                             *)
(***************************************************************************)
C13_UndoRedoInverseEverywhere ==
  started => UndoRedoRestores(_currentBranchId, _currentTransactionIndex)

(***************************************************************************)
(* C13 as amended.  For every branch b and every index i >= 0 of b, and    *)
(* for i = -1 when b has no transactions, undo() and then redo() from      *)
(* (b, i) returns the pointer to (b, i) with the same text and an          *)
(* unchanged table.  From (b, -1) on a branch that has transactions undo() *)
(* is a no-op and the redo() that follows moves the pointer to (b, 0).     *)
(***************************************************************************)
C13_UndoRedoInverse ==
  started =>
    \A b \in DOMAIN _branches :
      \A i \in ValidIndices(_branches, b) :
        IF i >= 0 \/ Len(_branches[b].transactions) = 0
        THEN UndoRedoRestores(b, i)
        ELSE /\ undo(Engine(_branches, b, i)).ret = "false"
             /\ UndoThenRedo(Engine(_branches, b, i)) = Engine(_branches, b, 0)

\* main alone with three transactions and the pointer at (main, 1): undo()
\* goes to (main, 0) and redo() comes back, while (main, 2) stays ahead
C13_Witness ==
  /\ started
  /\ DOMAIN _branches = {"main"}
  /\ Len(_branches["main"].transactions) = MaxChanges
  /\ _currentBranchId = "main"
  /\ _currentTransactionIndex = 1
  /\ undo(This) = Returns(Engine(_branches, "main", 0), "true")
  /\ UndoThenRedo(This) = This

(***************************************************************************)
(* The reference replay: the three operations applied to a plain string,   *)
(* one log entry after the other.  An insertion past the end of the string *)
(* appends; a deletion removes the characters that exist in its range.     *)
(***************************************************************************)
RefApplyClamped(opArray, t) ==
  IF IsInsert(opArray)
  THEN RefInsert(t, Min(opArray[1].n, Len(t)), opArray[2].s)
  ELSE RefApply(opArray, t)

\* transactions[0..i] (JavaScript indices) applied in log order to initialContent
RECURSIVE RefReplay(_, _, _)
RefReplay(initialContent, transactions, i) ==
  IF i < 0
  THEN initialContent
  ELSE RefApplyClamped(transactions[i + 1], RefReplay(initialContent, transactions, i - 1))

(***************************************************************************)
(* C14. Reconstruction equals reference replay: for every branch b of the  *)
(* table and every i in [-1, len - 1], _reconstructText(b, -1) is          *)
(* b.initialContent and _reconstructText(b, i) is transactions[0..i]       *)
(* applied in log order to initialContent by the reference string model.   *)
(***************************************************************************)
C14_ReconstructEqualsReference ==
  started =>
    \A b \in DOMAIN _branches :
      /\ _reconstructText(_branches, b, -1) = _branches[b].initialContent
      /\ \A i \in ValidIndices(_branches, b) :
           _reconstructText(_branches, b, i)
             = RefReplay(_branches[b].initialContent, _branches[b].transactions, i)

\* three tip commits on the root: "a" at 0, "b" at 1, then the character at 0
\* deleted; the root reconstructs to "a", "ab", "b"
C14_Witness ==
  /\ started
  /\ DOMAIN _branches = {"main"}
  /\ _branches["main"].transactions
       = <<(<<Num(0), Str("a")>>), (<<Num(1), Str("b")>>), (<<Num(0)>>)>>
  /\ _currentTransactionIndex = 2
  /\ _reconstructText(_branches, "main", 0) = "a"
  /\ _reconstructText(_branches, "main", 1) = "ab"
  /\ _reconstructText(_branches, "main", 2) = "b"

(***************************************************************************)
(* The coordinates the queries are asked about: every branch of the table  *)
(* with every index from -2 up to one past its tip, and an unknown branch. *)
(***************************************************************************)
QueriedBranches == DOMAIN _branches \cup {UnknownBranchId}

\* the engines the queries leave, each called on the engine e
AfterAQuery(e) ==
  UNION {{_reconstructTextCall(e, b, i).engine : i \in SwitchIndexInputs(b)}
           \cup {getStateInfoAt(e, b, i, now).engine : i \in SwitchIndexInputs(b)} :
         b \in QueriedBranches}
    \cup {getCurrentStateInfo(e, now).engine}

IsIndex(v) == v.t = "number" /\ v.n >= 0

IsWellFormedEntry(entry) ==
  IF ~ArrayIsArray(entry) THEN FALSE
  ELSE IF Len(entry) = 1 THEN IsIndex(entry[1])
  ELSE IF Len(entry) = 2
  THEN /\ IsIndex(entry[1])
       /\ \/ entry[2].t = "string" /\ Len(entry[2].s) >= 1
          \/ entry[2].t = "number" /\ entry[2].n >= 1
  ELSE FALSE

\* the reference replay of the well-formed entries among transactions[0..i]
RECURSIVE RefReplayWellFormed(_, _, _)
RefReplayWellFormed(initialContent, transactions, i) ==
  IF i < 0
  THEN initialContent
  ELSE LET before == RefReplayWellFormed(initialContent, transactions, i - 1)
       IN IF IsWellFormedEntry(transactions[i + 1])
          THEN RefApplyClamped(transactions[i + 1], before)
          ELSE before

(***************************************************************************)
(* C16. Malformed log entries are skipped: for a branch whose log holds    *)
(* entries that are none of the three operation shapes (no array, an empty *)
(* array, a wrong arity, wrong field types), _reconstructText(b, i)        *)
(* returns the text that replaying only the well-formed entries among      *)
(* transactions[0..i] gives.                                               *)
(***************************************************************************)
C16_MalformedEntriesSkipped ==
  started =>
    \A b \in DOMAIN _branches :
      \A i \in ValidIndices(_branches, b) :
        _reconstructText(_branches, b, i)
          = RefReplayWellFormed(_branches[b].initialContent, _branches[b].transactions, i)

(***************************************************************************)
(* C17. Single root: in every state reached from init() without stored     *)
(* history by commits, createBranch, undo, redo and switchToVersion,       *)
(* exactly one branch has parentBranchId = null, and it is "main".         *)
(***************************************************************************)
C17_SingleRoot ==
  started => {b \in DOMAIN _branches : _branches[b].parentBranchId = null} = {"main"}

\* three branches: main, a fork of main and "feature", the last two with a
\* parent
C17_Witness ==
  /\ started
  /\ Cardinality(DOMAIN _branches) = 3
  /\ "feature" \in DOMAIN _branches
  /\ \E b \in DOMAIN _branches : IsAutomatic(b) /\ _branches[b].parentBranchId = "main"
  /\ _branches["feature"].parentBranchId # null
  /\ _branches["main"].parentBranchId = null

(***************************************************************************)
(* C18. Parent references are valid: every branch made by a fork or by     *)
(* createBranch names as its parent a different branch of the table, with  *)
(* a parentTransactionIndex that is a valid index of that parent, when it  *)
(* is made and in every later state.                                       *)
(***************************************************************************)
C18_ParentReferencesValid ==
  started =>
    \A n \in DOMAIN _branches :
      _branches[n].parentBranchId # null =>
        /\ _branches[n].parentBranchId # n
        /\ ValidCoordinate(_branches, _branches[n].parentBranchId,
                           _branches[n].parentTransactionIndex)

(***************************************************************************)
(* C19. Initial state: after init() with no stored history the table holds *)
(* exactly one branch, "main", with parentBranchId = null, initialContent  *)
(* "" and no transactions, and the pointer is (main, -1).  Stated of every *)
(* state from init() up to the first call that changes the table.          *)
(***************************************************************************)
C19_InitialState ==
  (started /\ changes = 0) =>
    /\ DOMAIN _branches = {"main"}
    /\ _branches["main"].id = "main"
    /\ _branches["main"].parentBranchId = null
    /\ _branches["main"].initialContent = ""
    /\ _branches["main"].transactions = <<>>
    /\ _currentBranchId = "main"
    /\ _currentTransactionIndex = -1

\* init() has run and saved the fresh repository: the stored history is the
\* one-branch table and the stored pointer is (main, -1)
C19_Witness ==
  /\ started
  /\ changes = 0
  /\ DOMAIN localStorage = {"textVersionControlV2_history", "textVersionControlV2_prefs"}
  /\ localStorage["textVersionControlV2_history"] = JSONstringify(_branches)
  /\ localStorage["textVersionControlV2_prefs"]
       = JSONstringify([currentBranchId |-> "main", currentTransactionIndex |-> -1])
  /\ editor.value = ""

(***************************************************************************)
(* C20. Branch lifecycle: no step removes a branch id; a commit below the  *)
(* tip and a successful createBranch each add exactly one id; a commit at  *)
(* the tip, undo, redo, switchToVersion, a failing createBranch and the    *)
(* queries leave the set of ids as it was.                                 *)
(***************************************************************************)
C20_BranchLifecycle ==
  [][started =>
       /\ DOMAIN _branches \subseteq DOMAIN _branches'
       /\ (~AtTip /\ \E opArray \in OpArrays : Commit(opArray)) =>
            Cardinality(DOMAIN _branches') = Cardinality(DOMAIN _branches) + 1
       /\ (AtTip /\ \E opArray \in OpArrays : Commit(opArray)) =>
            DOMAIN _branches' = DOMAIN _branches
       /\ \A branchName \in BranchNameInputs :
            CreateBranchCall(branchName) =>
              IF createBranch(This, branchName).ret = "true"
              THEN /\ branchName \notin DOMAIN _branches
                   /\ DOMAIN _branches' = DOMAIN _branches \cup {branchName}
              ELSE DOMAIN _branches' = DOMAIN _branches
       /\ (UndoStep \/ RedoStep \/ SwitchToVersionStep
             \/ GetStateInfoAtStep \/ GetCurrentStateInfoStep) =>
            DOMAIN _branches' = DOMAIN _branches]_vars

(***************************************************************************)
(* C21. createBranch(name): when name is empty or already a key of the     *)
(* table, or the pointer's branch is not in the table, the call returns    *)
(* false and leaves table and pointer as they were; otherwise it returns   *)
(* true, adds the branch name with the pointer as its parent, the          *)
(* pointer's reconstructed text as initialContent and an empty log, keeps  *)
(* every other branch, moves the pointer to (name, -1) and shows the same  *)
(* text as before.                                                         *)
(***************************************************************************)
C21_CreateBranchContract ==
  \A branchName \in BranchNameInputs :
    LET r == createBranch(This, branchName)
        after == r.engine
        refused == \/ branchName = ""
                   \/ branchName \in DOMAIN _branches
                   \/ _currentBranchId \notin DOMAIN _branches
    IN IF refused
       THEN r.ret = "false" /\ after = This
       ELSE /\ r.ret = "true"
            /\ DOMAIN after.branches = DOMAIN _branches \cup {branchName}
            /\ \A b \in DOMAIN _branches : after.branches[b] = _branches[b]
            /\ after.branches[branchName].parentBranchId = _currentBranchId
            /\ after.branches[branchName].parentTransactionIndex
                 = _currentTransactionIndex
            /\ after.branches[branchName].initialContent = VisibleText
            /\ after.branches[branchName].transactions = <<>>
            /\ after.branchId = branchName
            /\ after.index = INITIAL_TRANSACTION_INDEX
            /\ _reconstructText(after.branches, after.branchId, after.index)
                 = VisibleText

\* the kind of a well-formed log entry
KindOf(opArray) ==
  IF IsInsert(opArray) THEN OP_TYPE_ADD
  ELSE IF IsDeleteRange(opArray) THEN OP_TYPE_DELETE_MULTI
  ELSE OP_TYPE_DELETE

HistoriesWithMain ==
  {history \in StoredHistories :
     history.type = "object" /\ DEFAULT_BRANCH_ID \in DOMAIN history.object}

\* the stored pointer names a branch that the history does not hold
NamesUnknownBranch(history, prefs) ==
  prefs.type = "object" /\ prefs.currentBranchId \notin DOMAIN history.object

\* the stored pointer names a branch of the history at an index that is no
\* number or lies outside -1 .. length - 1
NamesInvalidIndex(history, prefs) ==
  /\ prefs.type = "object"
  /\ prefs.currentBranchId \in DOMAIN history.object
  /\ \/ prefs.currentTransactionIndex.t # "number"
     \/ prefs.currentTransactionIndex.n
          \notin ValidIndices(history.object, prefs.currentBranchId)

\* the pointer after the step is the tip of the branch branchId
PointerAtTipOf(branchId) ==
  /\ _currentBranchId' = branchId
  /\ _currentTransactionIndex' = Len(_branches'[branchId].transactions) - 1

HistoriesWithoutMain ==
  {history \in StoredHistories :
     history.type = "object" /\ DEFAULT_BRANCH_ID \notin DOMAIN history.object}

(***************************************************************************)
(* C24. Load recovery of the root: whenever init() (with any stored        *)
(* pointer) or loadAllBranchesData loads a table without main, the table   *)
(* afterwards holds a root main with parentBranchId = null, empty          *)
(* initialContent and no transactions, and the pointer is a valid          *)
(* coordinate.                                                             *)
(***************************************************************************)
C24_RootRecoveredOnLoad ==
  [][\A history \in HistoriesWithoutMain :
       (\/ ~started /\ \E prefs \in StoredPreferences : InitLoadedCall(history, prefs)
        \/ started /\ changes' = changes + 1 /\ LoadAllBranchesDataCall(history))
         => /\ DEFAULT_BRANCH_ID \in DOMAIN _branches'
            /\ _branches'[DEFAULT_BRANCH_ID].parentBranchId = null
            /\ _branches'[DEFAULT_BRANCH_ID].initialContent = ""
            /\ _branches'[DEFAULT_BRANCH_ID].transactions = <<>>
            /\ ValidCoordinate(_branches', _currentBranchId',
                               _currentTransactionIndex')]_vars

C26_SessionRoundTrip ==
  [][(/\ ~started
      /\ started'
      /\ "textVersionControlV2_history" \in DOMAIN localStorage
      /\ "textVersionControlV2_prefs" \in DOMAIN localStorage)
       => /\ JSONstringify(_branches') = localStorage["textVersionControlV2_history"]
          /\ JSONstringify([currentBranchId |-> _currentBranchId',
                            currentTransactionIndex |-> _currentTransactionIndex'])
               = localStorage["textVersionControlV2_prefs"]]_vars

\* the last version of a branch
LastVersion(branch) == branch.versions[Len(branch.versions)]

(***************************************************************************)
(* C27. Snapshot-based program: when a version is added while              *)
(* currentVersionIndex is not the last index of the current branch, a new  *)
(* branch is created, the new version is recorded on that new branch, the  *)
(* versions of the branch that was navigated back in are unchanged, and    *)
(* afterwards currentVersionIndex is a valid index of the branch named by  *)
(* currentBranchId.                                                        *)
(***************************************************************************)
C27_AddVersionForks ==
  [][(/\ changes' = changes + 1
      /\ this_branches' # this_branches
      /\ currentVersionIndex < Len(this_branches[this_currentBranchId].versions) - 1)
       => /\ this_currentBranchId' \notin DOMAIN this_branches
          /\ this_currentBranchId' \in DOMAIN this_branches'
          /\ LastVersion(this_branches'[this_currentBranchId']).content = editorValue'
          /\ LastVersion(this_branches'[this_currentBranchId']).type
               \in {"keypress", "deletion"}
          /\ this_branches'[this_currentBranchId].versions
               = this_branches[this_currentBranchId].versions
          /\ currentVersionIndex'
               \in 0..(Len(this_branches'[this_currentBranchId'].versions) - 1)]_vars

\* the positions of the table that hold a 'deletion' version with this content
DeletionVersions(table, content) ==
  UNION {{<<branchId, i>> : i \in {j \in DOMAIN table[branchId].versions :
                                     /\ table[branchId].versions[j].type = "deletion"
                                     /\ table[branchId].versions[j].content = content}} :
         branchId \in DOMAIN table}

(***************************************************************************)
(* C28. Snapshot-based program, deletions are recorded: in the browser's   *)
(* order keydown (Backspace or Delete), input, deferred check, a deletion  *)
(* key press that has shortened the text makes the deferred check add      *)
(* exactly one 'deletion' version holding the shortened text.              *)
(***************************************************************************)
C28_DeletionRecorded ==
  [][(/\ timeouts # <<>>
      /\ ~inputPending
      /\ timeouts' = Tail(timeouts)
      /\ Len(editorValue) < Len(Head(timeouts).currentContent))
       => Cardinality(DeletionVersions(this_branches', editorValue)
                        \ DeletionVersions(this_branches, editorValue)) = 1]_vars

(***************************************************************************)
(* C29. Run to completion: no engine operation is started while another is *)
(* executing, and while a commit, undo, redo, switchToVersion or           *)
(* createBranch call is executing, the steps of its collaborators          *)
(* (setValue, an input listener run inside it, updatePreviousContent,      *)
(* render, updateVersionInfo, the saves) leave the table and the pointer   *)
(* as the call set them.                                                   *)
(***************************************************************************)
C29_RunToCompletion ==
  /\ [](Len(callStack) <= 1)
  /\ [][callStack # <<>>
          => UNCHANGED <<_branches, _currentBranchId, _currentTransactionIndex>>]_vars

\* a redo is inside setValue: the textarea holds one character more than
\* _previousContent, which is what _handleInput records as a typed character
C29_Witness ==
  /\ Len(callStack) = 1
  /\ Head(callStack).op = "redo"
  /\ Calls("setValueReturn")
  /\ _isProgrammaticChange
  /\ Len(editor.value) = Len(editor._previousContent) + 1

\* the Branch Table and the Version Pointer of instance i
InstanceState(i) == InstanceEngine(i)

(***************************************************************************)
(* C30. Independent engine instances do not share state: a commit,         *)
(* createBranch, undo, redo or switchToVersion on one of two instances     *)
(* leaves the other's Branch Table and Version Pointer as they were, also  *)
(* when the two were handed the same data object by loadAllBranchesData.   *)
(***************************************************************************)
C30_InstancesIndependent ==
  [][\A i \in Instances : \A j \in Instances \ {i} :
       InstanceOperation(i) => InstanceState(j)' = InstanceState(j)]_vars

(***************************************************************************)
(* C31. Fork snapshot consistency: in every state after init(), every      *)
(* branch n other than the root holds as its initialContent the text that  *)
(* _reconstructText gives, in that state, for its parent branch at its     *)
(* parentTransactionIndex.                                                 *)
(***************************************************************************)
C31_ForkSnapshotConsistent ==
  started =>
    \A n \in DOMAIN _branches :
      _branches[n].parentBranchId # null =>
        _branches[n].initialContent
          = _reconstructText(_branches, _branches[n].parentBranchId,
                             _branches[n].parentTransactionIndex)

\* following parentBranchId from branchId reaches "main" in at most steps steps
RECURSIVE ReachesRoot(_, _, _)
ReachesRoot(table, branchId, steps) ==
  IF branchId = DEFAULT_BRANCH_ID THEN TRUE
  ELSE IF steps = 0 \/ branchId \notin DOMAIN table THEN FALSE
  ELSE ReachesRoot(table, table[branchId].parentBranchId, steps - 1)

(***************************************************************************)
(* C32. The branch graph is a tree rooted at main: in every state after a  *)
(* fresh init(), following parentBranchId from any branch of the table     *)
(* reaches "main" within as many steps as the table has branches, so no    *)
(* branch is its own parent or ancestor.                                   *)
(***************************************************************************)
C32_TreeRootedAtMain ==
  started =>
    \A n \in DOMAIN _branches :
      ReachesRoot(_branches, n, Cardinality(DOMAIN _branches))

\* indices that are no integer numbers: undefined, NaN and numeric strings
NonIntegerIndices == {JsUndefined, JsNaN, Str("0"), Str("1")}

(***************************************************************************)
(* C33. In every state after init(), switchToVersion(b, x) on a branch b   *)
(* of the table with an index x that is no integer number (undefined, NaN, *)
(* a numeric string) returns false and leaves the pointer as it was.       *)
(***************************************************************************)
C33_NonIntegerIndexRefused ==
  started =>
    \A b \in DOMAIN _branches : \A x \in NonIntegerIndices :
      switchToVersionValue(This, b, x)
        = [ret |-> "false", branchId |-> _currentBranchId,
           index |-> Num(_currentTransactionIndex)]

\* for integers switchToVersionValue is switchToVersion
SwitchToVersionValueAgrees ==
  started =>
    \A b \in DOMAIN _branches \cup {UnknownBranchId} : \A i \in -2..(MaxChanges + 1) :
      LET r == switchToVersion(This, b, i)
      IN switchToVersionValue(This, b, Num(i))
           = [ret |-> r.ret, branchId |-> r.engine.branchId, index |-> Num(r.engine.index)]

(***************************************************************************)
(* C34. Editor and engine stay in sync: after init(), after every editor   *)
(* event (a typed character, a paste, a character typed over a selection,  *)
(* Backspace) and after every engine operation, the textarea holds         *)
(* _reconstructText of the pointer; and every character typed into the     *)
(* textarea is recorded by a commit.                                       *)
(***************************************************************************)
C34_EditorInSync ==
  [][/\ started' =>
          editor'.value = _reconstructText(_branches', _currentBranchId',
                                           _currentTransactionIndex')
     /\ EditorTypedStep => changes' = changes + 1]_vars

\* the table with opArray appended to the log of main, main being created
\* empty if the table has none
AppendedToMain(table, opArray) ==
  [_initializeNewRepository(Engine(table, "", INITIAL_TRANSACTION_INDEX)).branches
     EXCEPT ![DEFAULT_BRANCH_ID].transactions =
              IF DEFAULT_BRANCH_ID \in DOMAIN table
              THEN Append(table[DEFAULT_BRANCH_ID].transactions, opArray)
              ELSE <<opArray>>,
            ![DEFAULT_BRANCH_ID].initialContent =
              IF DEFAULT_BRANCH_ID \in DOMAIN table
              THEN table[DEFAULT_BRANCH_ID].initialContent ELSE "",
            ![DEFAULT_BRANCH_ID].parentBranchId =
              IF DEFAULT_BRANCH_ID \in DOMAIN table
              THEN table[DEFAULT_BRANCH_ID].parentBranchId ELSE null,
            ![DEFAULT_BRANCH_ID].parentTransactionIndex =
              IF DEFAULT_BRANCH_ID \in DOMAIN table
              THEN table[DEFAULT_BRANCH_ID].parentTransactionIndex
              ELSE INITIAL_TRANSACTION_INDEX]

\* the names of no branch that the pointer may hold
MissingBranchIds == {"", UnknownBranchId}

DragCalls ==
  {handleDragMove(isDragging, dragTarget, clientX).call : clientX \in ClientXs}
    \cup {handleDragEnd(isDragging, dragTarget).call}

(***************************************************************************)
(* C36. Timeline drag under interleaving: while a drag is on (between a    *)
(* node mousedown and its mouseup), whatever commits, undos and redos have  *)
(* run since, every switchToVersion call a mousemove or the mouseup issues  *)
(* names the dragged branch and an index from -1 to the last index of that  *)
(* branch's log as it is at the call; when no drag is on, dragTarget is     *)
(* null and a mousemove issues no call.                                    *)
(***************************************************************************)
C36_DragCallsInRange ==
  /\ \A call \in DragCalls :
       call.issued =>
         /\ isDragging
         /\ call.branchId = dragTarget.branchId
         /\ call.branchId \in DOMAIN _branches
         /\ call.transactionIndex
              \in -1..(Len(_branches[call.branchId].transactions) - 1)
  /\ ~isDragging =>
       /\ dragTarget = NoDragTarget
       /\ \A clientX \in ClientXs :
            ~handleDragMove(isDragging, dragTarget, clientX).call.issued

(***************************************************************************)
(* C37. Character-slot variant: in every state of VersionControlV2 with a  *)
(* current version, whose visible text is t, recordCharacterTyped(index,    *)
(* char) with 0 <= index <= |t| makes current a version whose visible text  *)
(* is t with char inserted at index, and recordCharacterDeletion(index)     *)
(* with 0 <= index < |t| one whose visible text is t without the character  *)
(* at index.                                                               *)
(***************************************************************************)
C37_SlotEditsVisibleText ==
  v2_generated > 0 =>
    LET t == SlotText(ThisSlotEngine)
    IN /\ \A index \in 0..Len(t) : \A char \in SlotCharacters :
            SlotText(recordCharacterTypedV2(ThisSlotEngine, index, char))
              = InsertAt(t, index, char)
       /\ \A index \in 0..(Len(t) - 1) :
            SlotText(recordCharacterDeletionV2(ThisSlotEngine, index))
              = RemoveAt(t, index)

====
